---- MODULE Spec2Model ----
(***************************************************************************)
(* Process supervisor of XianyuAutoAgent.                                  *)
(*                                                                         *)
(* The repository holds two supervisors of the worker (main.py):           *)
(*   "app": web_app.py, class ProcessManager (Flask, threads, one Lock)    *)
(*   "mgr": web_manager/backend/services/process_manager.py, class         *)
(*          ProcessManager, and the restart endpoint of                    *)
(*          web_manager/backend/app.py (asyncio, one event loop)           *)
(* A run of the model is a run of one of the two; impl says which.         *)
(*                                                                         *)
(* Log streaming is modelled by three further specifications, each with    *)
(* the rest of the program at rest:                                        *)
(*   SpecHub:   ConnectionManager and websocket_logs of                    *)
(*              web_manager/backend/app.py, fed by the tail loop           *)
(*   SpecQueue: the output queue of web_app.py and its viewer streams      *)
(*   SpecTail:  LogMonitor of web_manager/backend/services/log_monitor.py  *)
(***************************************************************************)
EXTENDS Integers, Sequences, FiniteSets, TLC

\* Bounds of the model.
MaxSpawn == 2        \* worker processes spawned in one run
NCallers == 2        \* concurrent request handlers (threads / coroutines)
NConns == 2          \* WebSocket connections opened in one run
MaxRec == 2          \* records the tail loop publishes in one run
max_buffer_size == 3 \* LogMonitor.max_buffer_size, scaled down from 1000
NViewers == 2        \* /api/logs/stream requests in one run
MaxOut == 2          \* lines the worker prints to its stdout in one run
MaxLines == 4        \* lines written to the log file in one run
MaxTasks == 2        \* tail loop tasks created in one run
MaxThreads == 2      \* output reader threads created in one run
MaxHist == 1         \* request_log_history events in one run
tail_lines == 2      \* LogMonitor.tail_lines, scaled down from 100
MaxStat == 4         \* records in the buffer get_log_statistics is given
recent_errors_max == 2 \* errors get_log_statistics collects, scaled down from 10
message_cut == 2     \* get_log_statistics keeps message[:100], scaled down from 100

\* Python's None for a pid / a start time.
None == 0

Pids == 1..MaxSpawn
Callers == 1..NCallers
Conns == 1..NConns
Records == 1..MaxRec
Viewers == 1..NViewers
Tasks == 1..MaxTasks
Threads == 1..MaxThreads

VARIABLES
    impl,              \* which supervisor runs: "app" or "mgr"
    os,                \* OS process table: pid -> unborn / alive / zombie / gone
    wa_status,         \* web_app.py: self.status
    wa_process,        \* web_app.py: self.process (its pid, or None)
    wa_start_time,     \* web_app.py: self.start_time
    wa_lock,           \* web_app.py: self.lock (the holder, or None)
    pm_process,        \* process_manager.py: self.process (its pid, or None)
    pm_process_info,   \* process_manager.py: self.process_info['pid'], None when {}
    pm_start_time,     \* process_manager.py: self.start_time
    pm_is_monitoring,  \* process_manager.py: self.is_monitoring
    pm_loop,           \* the coroutine inside a blocking call on the event loop
    pc,                \* per caller: position in its operation
    op,                \* per caller: the operation it runs
    loc,               \* per caller: locals of the stop in progress
    ret,               \* the result returned by the last step, if it returned one
    onlyStarts         \* history: every operation begun so far is a start

supVars == <<impl, os, wa_status, wa_process, wa_start_time, wa_lock,
             pm_process, pm_process_info, pm_start_time, pm_is_monitoring, pm_loop,
             pc, op, loc, ret, onlyStarts>>

VARIABLES
    active_connections, \* backend/app.py: ConnectionManager.active_connections (a list)
    sess,              \* per connection: position of its websocket_logs handler
    client,            \* per connection: the remote end: ok / stalled / gone
    recv,              \* per connection: the records sent to it, in order
    history_at_join,   \* history: per connection, log_buffer as it was when it connected
    pub_pc,            \* broadcast_log: "idle", or "await" inside send_json
    pub_idx,           \* broadcast_log: items the list iterator has handed out
    pub_cur,           \* broadcast_log: the connection whose send is awaited
    pub_rec,           \* the record of the current (or last) publish, 0 before the first
    pub_n,             \* records handed to _process_log_entry so far
    disconnected,      \* broadcast_log: its local list `disconnected`
    pub_stable,        \* history: registered from the start of this publish until now
    log_buffer         \* log_monitor.py: LogMonitor.log_buffer

hubVars == <<active_connections, sess, client, recv, history_at_join, pub_pc, pub_idx,
             pub_cur, pub_rec, pub_n, disconnected, pub_stable>>

VARIABLES
    log_queue,         \* web_app.py: ProcessManager.log_queue (a FIFO of output lines)
    stream,            \* per viewer: position of its log_stream response generator
    got,               \* per viewer: the output lines yielded to it, in order
    last_msg,          \* per viewer: type of the last message yielded to it
    produced,          \* lines the output reader thread has enqueued so far
    audience,          \* history: per line, the viewers connected since it was enqueued
    rq_pc,             \* get_recent_logs (web_app.py): "idle", "drain", "refill"
    temp_queue,        \* get_recent_logs: temp_queue
    logs               \* get_recent_logs: logs

queueVars == <<log_queue, stream, got, last_msg, produced, audience, rq_pc, temp_queue, logs>>

VARIABLES
    file,              \* logs/app.log: its bytes
    file_exists,       \* logs/app.log exists
    next_line,         \* the number of the next line the worker writes
    lm_pc,             \* LogMonitor: "new", "ready" (initialized), "poll", "read"
    last_position,     \* _monitoring_loop: last_position
    current_size,      \* _monitoring_loop: current_size
    emitted,           \* the records handed to _process_log_entry, in order
    snap,              \* the result of get_recent_logs, if the last step was that call
    live_from,         \* history: the value of next_line when the tail loop started
    touched,           \* history: the file was written since the program started
    settled,           \* history: a poll found nothing to do since the last write
    absent_polled,     \* history: a poll found no file, and the file now there was
                       \* created after it and neither truncated nor removed since
    pushed             \* history: every record appended to the buffer, in order

tailVars == <<file, file_exists, next_line, lm_pc, last_position, current_size,
              emitted, snap, live_from, touched, settled, absent_polled, pushed>>

VARIABLES
    ep_pc,             \* per request of backend/app.py: position of its endpoint handler
    ep_wait,           \* per request: the task stop_monitoring awaits
    process_info,      \* process_manager.process_info is set (a worker is recorded)
    is_monitoring,     \* LogMonitor.is_monitoring
    monitoring_task,   \* LogMonitor.monitoring_task
    log_callback,      \* LogMonitor.log_callback
    task,              \* per task created for _monitoring_loop: its state
    stop_ok            \* history: a stop returned success while no start_process call
                       \* was in progress, and no start request came since

monVars == <<ep_pc, ep_wait, process_info, is_monitoring, monitoring_task, log_callback,
             task, stop_ok>>

VARIABLES
    ponged             \* per connection: websocket_logs has sent it a "pong"

VARIABLES
    p_line,            \* the line last given to a parser
    p_impl,            \* the parser it was given to: "log_monitor" or "log_service"
    p_out              \* the records that parser handed on for the line

parseVars == <<p_line, p_impl, p_out>>

VARIABLES
    rd_status,         \* web_app.py: self.status, as the output reader's run sees it
    rd_process,        \* web_app.py: self.process (the worker, or None)
    rd_pc,             \* the call that holds self.lock: "idle", "start_mon", "stop_fin"
    rd_worker,         \* per worker: unborn / alive / exited
    rd_stdout,         \* per worker: process.stdout of its Popen object: open / closed
    rd_pipe,           \* per worker: lines it printed that nobody has read yet
    rd_printed,        \* lines printed so far
    rd_enqueued,       \* lines put into log_queue so far
    output_thread,     \* web_app.py: self.output_thread (a thread, or None)
    rd_thread,         \* per thread: unborn / started / reading / finally / dead
    rd_reads           \* per thread: the worker whose stdout.readline it iterates

VARIABLES
    fs_lines,          \* web_frontend: the lines the log file holds (lines 1..fs_lines)
    fs_last_position,  \* LogService.last_position, counted in lines
    fs_monitoring,     \* LogService.is_monitoring
    connected_clients, \* XianyuWebApp.connected_clients
    fs_recv,           \* per viewer: the records of the 'new_log' events it received
    fs_sent,           \* history: the lines emitted so far
    fs_live_from,      \* history: the lines the file held when monitoring started
    fs_requests        \* request_log_history events handled so far

frontVars == <<fs_lines, fs_last_position, fs_monitoring, connected_clients, fs_recv,
               fs_sent, fs_live_from, fs_requests>>

VARIABLES
    stat_buffer,       \* LogMonitor.log_buffer as get_log_statistics finds it
    stats              \* what get_log_statistics returned

statVars == <<stat_buffer, stats>>

readerVars == <<rd_status, rd_process, rd_pc, rd_worker, rd_stdout, rd_pipe, rd_printed,
                rd_enqueued, output_thread, rd_thread, rd_reads>>

logVars == <<hubVars, log_buffer, queueVars, tailVars, monVars, ponged, parseVars,
             readerVars, frontVars, statVars>>

\* What the hub's actions leave alone.
nonHubVars == <<supVars, queueVars, tailVars, monVars, ponged, parseVars,
    readerVars, frontVars, statVars>>

\* What the output queue's actions leave alone.
nonQueueVars == <<supVars, hubVars, log_buffer, tailVars, monVars, ponged, parseVars,
    readerVars, frontVars, statVars>>

\* What the tailer's actions leave alone.
nonTailVars == <<supVars, hubVars, queueVars, monVars, ponged, parseVars,
    readerVars, frontVars, statVars>>

\* What the endpoints' monitoring steps leave alone.
nonMonVars == <<supVars, hubVars, log_buffer, queueVars, tailVars, ponged, parseVars,
    readerVars, frontVars, statVars>>

\* What the parsers leave alone.
nonParseVars == <<supVars, hubVars, log_buffer, queueVars, tailVars, monVars, ponged,
    readerVars, frontVars, statVars>>

\* What the output reader and the calls around it leave alone.
nonReaderVars == <<supVars, hubVars, log_buffer, queueVars, tailVars, monVars, ponged,
    parseVars, frontVars, statVars>>

\* What get_log_statistics leaves alone.
nonStatVars == <<supVars, hubVars, log_buffer, queueVars, tailVars, monVars, ponged,
    parseVars, readerVars, frontVars>>

\* What the frontend's log service leaves alone.
nonFrontVars == <<supVars, hubVars, log_buffer, queueVars, tailVars, monVars, ponged,
    parseVars, readerVars, statVars>>

vars == <<impl, os, wa_status, wa_process, wa_start_time, wa_lock,
          pm_process, pm_process_info, pm_start_time, pm_is_monitoring, pm_loop,
          pc, op, loc, ret, onlyStarts, logVars>>

waVars == <<wa_status, wa_process, wa_start_time, wa_lock>>
pmVars == <<pm_process, pm_process_info, pm_start_time, pm_is_monitoring, pm_loop>>

----------------------------------------------------------------------------
\* Results handed back to the caller.

NoRet ==
    [type |-> "none", who |-> None, op |-> "none", via |-> "none",
     success |-> FALSE, kind |-> "none", pid |-> None,
     is_running |-> FALSE, status |-> "null", start_time |-> None,
     cpu |-> "null", mem |-> "null", uptime |-> "null",
     target |-> None, termed |-> FALSE, expired |-> FALSE, killed |-> FALSE]

\* {success, message, pid} of start / stop / restart; l holds the stop's locals.
OpResult(who, o, via, success, kind, pid, l) ==
    [NoRet EXCEPT !.type = "op", !.who = who, !.op = o, !.via = via,
                  !.success = success, !.kind = kind, !.pid = pid,
                  !.target = l.pid, !.termed = l.termed, !.expired = l.expired, !.killed = l.killed]

\* The status dictionary.
StatusResult(who, running, status, pid, st, cpu, mem, up) ==
    [NoRet EXCEPT !.type = "status", !.who = who, !.op = "status", !.via = "status",
                  !.success = TRUE, !.kind = "status",
                  !.is_running = running, !.status = status, !.pid = pid,
                  !.start_time = st, !.cpu = cpu, !.mem = mem, !.uptime = up]

NoLoc == [pid |-> None, termed |-> FALSE, expired |-> FALSE, killed |-> FALSE,
          stopkind |-> "none"]

----------------------------------------------------------------------------
\* The operating system.

CanSpawn == \E p \in Pids : os[p] = "unborn"

\* The pid the next subprocess.Popen gets.
FreshPid == CHOOSE p \in Pids : os[p] = "unborn" /\ \A q \in Pids : q < p => os[q] # "unborn"

\* Popen.poll() / wait() / psutil wait() of an exited child reaps it.
Reap(table, p) == IF table[p] = "zombie" THEN [table EXCEPT ![p] = "gone"] ELSE table

\* The worker exits on its own; until its parent waits for it, it is a zombie.
WorkerExit(p) ==
    /\ os[p] = "alive"
    /\ os' = [os EXCEPT ![p] = "zombie"]
    /\ ret' = NoRet
    /\ UNCHANGED <<impl, logVars, waVars, pmVars, pc, op, loc, onlyStarts>>

----------------------------------------------------------------------------
\* web_app.py, ProcessManager: every operation runs under self.lock.

WA_Return(t, r) ==
    /\ ret' = r
    /\ wa_lock' = None
    /\ pc' = [pc EXCEPT ![t] = "idle"]
    /\ op' = [op EXCEPT ![t] = "none"]
    /\ loc' = [loc EXCEPT ![t] = NoLoc]

\* A start that tests for the wrong lifecycle state.
WA_AlreadyRunning_WrongState == wa_status = "starting"

\* line 48: if self.status == "running".
WA_AlreadyRunning == wa_status = "running"

\* start_main_process, lines 47-54: take the lock, refuse when running, else "starting".
WA_StartBegin(t) ==
    /\ impl = "app" /\ pc[t] = "idle" /\ wa_lock = None
    /\ IF WA_AlreadyRunning
       THEN /\ WA_Return(t, OpResult(t, "start", "start", FALSE, "already_running", None, NoLoc))
            /\ UNCHANGED <<wa_status>>
       ELSE /\ CanSpawn
            /\ wa_status' = "starting"
            /\ wa_lock' = t
            /\ pc' = [pc EXCEPT ![t] = "start_spawn"]
            /\ op' = [op EXCEPT ![t] = "start"]
            /\ ret' = NoRet
            /\ UNCHANGED loc
    /\ UNCHANGED <<impl, logVars, os, wa_process, wa_start_time, pmVars, onlyStarts>>

\* lines 56-69 (Popen, start_time, "running") or, when Popen raises, lines 77-80.
WA_StartSpawn(t) ==
    /\ impl = "app" /\ pc[t] = "start_spawn"
    /\ \/ /\ os' = [os EXCEPT ![FreshPid] = "alive"]
          /\ wa_process' = FreshPid
          /\ wa_start_time' = FreshPid
          /\ wa_status' = "running"
          /\ pc' = [pc EXCEPT ![t] = "start_ret"]
          /\ ret' = NoRet
          /\ UNCHANGED <<wa_lock, loc, op>>
       \/ /\ wa_status' = "stopped"
          /\ WA_Return(t, OpResult(t, "start", "start", FALSE, "exception", None, NoLoc))
          /\ UNCHANGED <<os, wa_process, wa_start_time>>
    /\ UNCHANGED <<impl, logVars, pmVars, onlyStarts>>

\* lines 71-75: start the reader thread, return success.
WA_StartReturn(t) ==
    /\ impl = "app" /\ pc[t] = "start_ret"
    /\ WA_Return(t, OpResult(t, "start", "start", TRUE, "started", wa_process, NoLoc))
    /\ UNCHANGED <<impl, logVars, os, wa_status, wa_process, wa_start_time, pmVars, onlyStarts>>

\* lines 105-114: the handle is cleared, "stopped", success.
WA_StopFinish(t, l) ==
    /\ wa_process' = None
    /\ wa_status' = "stopped"
    /\ wa_start_time' = None
    /\ WA_Return(t, OpResult(t, "stop", "stop", TRUE, "stopped", None, l))

\* An except branch that forgets to leave "stopping".
WA_StopExcept_KeepsState(t, l) ==
    /\ WA_Return(t, OpResult(t, "stop", "stop", FALSE, "exception", None, l))
    /\ UNCHANGED <<wa_status, wa_process, wa_start_time>>

\* lines 116-119: the except branch sets "stopped" and nothing else.
WA_StopExcept(t, l) ==
    /\ wa_status' = "stopped"
    /\ WA_Return(t, OpResult(t, "stop", "stop", FALSE, "exception", None, l))
    /\ UNCHANGED <<wa_process, wa_start_time>>

\* A stop that reports "not running" as a success.
WA_NotRunningResult_Success(t) ==
    OpResult(t, "stop", "stop", TRUE, "not_running", None, NoLoc)

\* line 87: return False, "主进程未在运行".
WA_NotRunningResult(t) ==
    OpResult(t, "stop", "stop", FALSE, "not_running", None, NoLoc)

\* stop_main_process, lines 84-91.
WA_StopBegin(t) ==
    /\ impl = "app" /\ pc[t] = "idle" /\ wa_lock = None
    /\ onlyStarts' = FALSE
    /\ IF wa_status # "running"
       THEN /\ WA_Return(t, WA_NotRunningResult(t))
            /\ UNCHANGED <<wa_status>>
       ELSE /\ wa_status' = "stopping"
            /\ wa_lock' = t
            /\ pc' = [pc EXCEPT ![t] = "stop_term"]
            /\ op' = [op EXCEPT ![t] = "stop"]
            /\ loc' = [loc EXCEPT ![t] = [NoLoc EXCEPT !.pid = wa_process]]
            /\ ret' = NoRet
    /\ UNCHANGED <<impl, logVars, os, wa_process, wa_start_time, pmVars>>

\* A stop that goes from terminate() straight to kill(), without the bounded wait.
WA_StopTerm_NoWait(t) ==
    /\ impl = "app" /\ pc[t] = "stop_term"
    /\ IF wa_process = None
       THEN WA_StopFinish(t, loc[t])
       ELSE /\ loc' = [loc EXCEPT ![t].termed = TRUE]
            /\ pc' = [pc EXCEPT ![t] = "stop_kill"]
            /\ ret' = NoRet
            /\ UNCHANGED <<waVars, op>>
    /\ UNCHANGED <<impl, logVars, os, pmVars, onlyStarts>>

\* lines 93-96: self.process.terminate(), which may raise.
WA_StopTerm(t) ==
    /\ impl = "app" /\ pc[t] = "stop_term"
    /\ IF wa_process = None
       THEN WA_StopFinish(t, loc[t])
       ELSE \/ /\ loc' = [loc EXCEPT ![t].termed = TRUE]
               /\ pc' = [pc EXCEPT ![t] = "stop_wait"]
               /\ ret' = NoRet
               /\ UNCHANGED <<waVars, op>>
            \/ WA_StopExcept(t, loc[t])
    /\ UNCHANGED <<impl, logVars, os, pmVars, onlyStarts>>

\* line 98: self.process.wait(timeout=10): the worker is gone in time, or TimeoutExpired.
WA_StopWait(t) ==
    /\ impl = "app" /\ pc[t] = "stop_wait"
    /\ \/ /\ os' = [os EXCEPT ![wa_process] = "gone"]
          /\ WA_StopFinish(t, loc[t])
       \/ /\ os[wa_process] = "alive"
          /\ loc' = [loc EXCEPT ![t].expired = TRUE]
          /\ pc' = [pc EXCEPT ![t] = "stop_kill"]
          /\ ret' = NoRet
          /\ UNCHANGED <<os, waVars, op>>
    /\ UNCHANGED <<impl, logVars, pmVars, onlyStarts>>

\* lines 99-103: kill() and wait() without timeout; kill() may raise.
WA_StopKill(t) ==
    /\ impl = "app" /\ pc[t] = "stop_kill"
    /\ \/ /\ os' = [os EXCEPT ![wa_process] = "gone"]
          /\ WA_StopFinish(t, [loc[t] EXCEPT !.killed = TRUE])
       \/ /\ WA_StopExcept(t, loc[t])
          /\ UNCHANGED os
    /\ UNCHANGED <<impl, logVars, pmVars, onlyStarts>>

\* get_status, lines 124-171: the dictionary it returns. status_info is filled from
\* the fields before the liveness check, and the check rewrites only its "status".
WA_StatusResult(t) ==
    IF wa_status = "running" /\ wa_process # None
    THEN IF os[wa_process] # "alive"
         THEN StatusResult(t, FALSE, "stopped", wa_process, wa_start_time,
                           "null", "null", "null")
         ELSE StatusResult(t, TRUE, "running", wa_process, wa_start_time, "val", "val",
                           IF wa_start_time # None THEN "val" ELSE "null")
    ELSE StatusResult(t, wa_status = "running", wa_status, wa_process, wa_start_time,
                      "null", "null", "null")

\* get_status, lines 121-171, one critical section; lines 138-145 when poll() finds
\* the worker exited.
WA_Status(t) ==
    /\ impl = "app" /\ pc[t] = "idle" /\ wa_lock = None
    /\ onlyStarts' = FALSE
    /\ ret' = WA_StatusResult(t)
    /\ IF wa_status = "running" /\ wa_process # None /\ os[wa_process] # "alive"
       THEN /\ os' = Reap(os, wa_process)
            /\ wa_status' = "stopped"
            /\ wa_start_time' = None
            /\ wa_process' = None
       ELSE UNCHANGED <<os, wa_status, wa_start_time, wa_process>>
    /\ UNCHANGED <<impl, logVars, wa_lock, pmVars, pc, op, loc>>

----------------------------------------------------------------------------
\* web_manager/backend/services/process_manager.py, ProcessManager: coroutines on
\* one event loop. A coroutine runs alone from one await that suspends to the next;
\* inside a blocking call (psutil wait) it keeps the loop, and pm_loop names it.

\* What psutil reports for an exited child nobody has waited for: on Linux its
\* /proc entries are still readable, elsewhere the queries raise ZombieProcess,
\* a NoSuchProcess.
ZombieProbe == {"running", "nosuch"}

\* get_status, lines 134-164: the outcome of probing the recorded pid.
PMProbe(z) ==
    IF pm_process_info = None THEN "none"
    ELSE IF os[pm_process_info] = "alive" THEN "running"
    ELSE IF os[pm_process_info] = "gone" THEN "nosuch"
    ELSE z

\* _cleanup_process_info, lines 385-389.
PM_Cleanup ==
    /\ pm_process' = None
    /\ pm_process_info' = None
    /\ pm_start_time' = None

\* get_status as called by start_process / stop_process: its side effect when the
\* probe does not find the worker running.
PM_StatusEffect(pr) ==
    IF pr = "nosuch" THEN PM_Cleanup
    ELSE UNCHANGED <<pm_process, pm_process_info, pm_start_time>>

PM_Return(k, r) ==
    /\ ret' = r
    /\ pm_loop' = None
    /\ pc' = [pc EXCEPT ![k] = "idle"]
    /\ op' = [op EXCEPT ![k] = "none"]
    /\ loc' = [loc EXCEPT ![k] = NoLoc]

\* start_process, lines 199-234: up to the await asyncio.sleep(1). o is the
\* endpoint that called it ("start", or "restart" of app.py line 202).
PM_StartBody(k, o, z) ==
    LET pr == PMProbe(z) IN
    IF pr = "running"
    THEN /\ PM_Return(k, OpResult(k, o, "start", FALSE, "already_running",
                                  pm_process_info, NoLoc))
         /\ UNCHANGED <<os, pm_process, pm_process_info, pm_start_time>>
    ELSE /\ CanSpawn
         /\ \/ /\ os' = [os EXCEPT ![FreshPid] = "alive"]
               /\ pm_process' = FreshPid
               /\ pm_process_info' = None
               /\ pm_start_time' = IF pr = "nosuch" THEN None ELSE pm_start_time
               /\ pc' = [pc EXCEPT ![k] = "start_sleep"]
               /\ op' = [op EXCEPT ![k] = o]
               /\ ret' = NoRet
               /\ UNCHANGED <<pm_loop, loc>>
            \/ \* Popen raises: lines 282-290
               /\ PM_Cleanup
               /\ PM_Return(k, OpResult(k, o, "start", FALSE, "exception", None, NoLoc))
               /\ UNCHANGED os

PM_Start(k) ==
    /\ impl = "mgr" /\ pc[k] = "idle" /\ pm_loop = None
    /\ \E z \in ZombieProbe : PM_StartBody(k, "start", z)
    /\ UNCHANGED <<impl, logVars, waVars, pm_is_monitoring, onlyStarts>>

\* start_process, lines 236-280: after the sleep.
PM_StartWake(k) ==
    /\ impl = "mgr" /\ pc[k] = "start_sleep" /\ pm_loop = None
    /\ IF pm_process = None
       THEN \* self.process.poll() on None raises: lines 282-290
            /\ PM_Cleanup
            /\ PM_Return(k, OpResult(k, op[k], "start", FALSE, "exception", None, NoLoc))
            /\ UNCHANGED <<os, pm_is_monitoring>>
       ELSE IF os[pm_process] = "alive"
            THEN /\ pm_start_time' = pm_process
                 /\ pm_process_info' = pm_process
                 /\ pm_is_monitoring' = TRUE
                 /\ PM_Return(k, OpResult(k, op[k], "start", TRUE, "started",
                                          pm_process, NoLoc))
                 /\ UNCHANGED <<os, pm_process>>
            ELSE /\ os' = Reap(os, pm_process)
                 /\ PM_Cleanup
                 /\ PM_Return(k, OpResult(k, op[k], "start", FALSE, "exit_code",
                                          None, NoLoc))
                 /\ UNCHANGED pm_is_monitoring
    /\ UNCHANGED <<impl, logVars, waVars, onlyStarts>>

\* What stop_process returns goes to the caller of the stop endpoint, or to
\* restart_process (app.py lines 194-199), which returns it when it is a failure
\* and sleeps 2 s before start_process otherwise.
PM_StopReturn(k, o, success, kind, pid, l) ==
    IF o = "restart" /\ success
    THEN /\ pc' = [pc EXCEPT ![k] = "restart_sleep"]
         /\ op' = [op EXCEPT ![k] = o]
         /\ loc' = [loc EXCEPT ![k] = [NoLoc EXCEPT !.pid = l.pid, !.stopkind = kind]]
         /\ pm_loop' = None
         /\ ret' = NoRet
    ELSE PM_Return(k, OpResult(k, o, "stop", success, kind, pid, l))

\* stop_process, lines 299-313: get_status, the not-running answer, and
\* _stop_monitoring, which suspends only when a monitoring task is to be cancelled.
PM_StopBegin(k, o) ==
    /\ impl = "mgr" /\ pc[k] = "idle" /\ pm_loop = None
    /\ onlyStarts' = FALSE
    /\ \E z \in ZombieProbe :
         LET pr == PMProbe(z) IN
         IF pr # "running"
         THEN /\ PM_StatusEffect(pr)
              /\ PM_StopReturn(k, o, TRUE, "not_running", None, NoLoc)
              /\ UNCHANGED pm_is_monitoring
         ELSE /\ loc' = [loc EXCEPT ![k] = [NoLoc EXCEPT !.pid = pm_process_info]]
              /\ op' = [op EXCEPT ![k] = o]
              /\ pc' = [pc EXCEPT ![k] = "stop_term"]
              /\ pm_is_monitoring' = FALSE
              /\ pm_loop' = IF pm_is_monitoring THEN None ELSE k
              /\ ret' = NoRet
              /\ UNCHANGED <<pm_process, pm_process_info, pm_start_time>>
    /\ UNCHANGED <<impl, logVars, os, waVars>>

PM_Stop(k) == PM_StopBegin(k, "stop")

\* app.py, restart_process, line 194.
PM_Restart(k) == PM_StopBegin(k, "restart")

\* lines 336-343.
PM_StopFinish(k, l) ==
    /\ PM_Cleanup
    /\ PM_StopReturn(k, op[k], TRUE, "stopped", l.pid, l)

\* An except branch that reports the stop as done.
PM_StopExcept_Success(k, l) ==
    /\ PM_StopReturn(k, op[k], TRUE, "stopped", l.pid, l)
    /\ UNCHANGED <<pm_process, pm_process_info, pm_start_time>>

\* lines 345-351: the except branch returns a failure and cleans nothing.
PM_StopExcept(k, l) ==
    /\ PM_StopReturn(k, op[k], FALSE, "exception", None, l)
    /\ UNCHANGED <<pm_process, pm_process_info, pm_start_time>>

\* lines 315-320 and 333-334: psutil.Process(pid), terminate().
PM_StopTerm(k) ==
    /\ impl = "mgr" /\ pc[k] = "stop_term" /\ pm_loop \in {None, k}
    /\ IF os[loc[k].pid] = "gone"
       THEN PM_StopFinish(k, loc[k])
       ELSE \/ /\ loc' = [loc EXCEPT ![k].termed = TRUE]
               /\ pc' = [pc EXCEPT ![k] = "stop_wait"]
               /\ pm_loop' = k
               /\ ret' = NoRet
               /\ UNCHANGED <<pm_process, pm_process_info, pm_start_time, op>>
            \/ PM_StopExcept(k, loc[k])
    /\ UNCHANGED <<impl, logVars, os, waVars, pm_is_monitoring, onlyStarts>>

\* lines 323-328: proc.wait(timeout=10).
PM_StopWait(k) ==
    /\ impl = "mgr" /\ pc[k] = "stop_wait"
    /\ \/ /\ os' = [os EXCEPT ![loc[k].pid] = "gone"]
          /\ PM_StopFinish(k, loc[k])
       \/ /\ os[loc[k].pid] = "alive"
          /\ loc' = [loc EXCEPT ![k].expired = TRUE]
          /\ pc' = [pc EXCEPT ![k] = "stop_kill"]
          /\ ret' = NoRet
          /\ UNCHANGED <<os, pm_process, pm_process_info, pm_start_time, pm_loop, op>>
    /\ UNCHANGED <<impl, logVars, waVars, pm_is_monitoring, onlyStarts>>

\* lines 329-331: proc.kill(), proc.wait(timeout=5), which may expire too.
PM_StopKill(k) ==
    /\ impl = "mgr" /\ pc[k] = "stop_kill"
    /\ \/ /\ os' = [os EXCEPT ![loc[k].pid] = "gone"]
          /\ PM_StopFinish(k, [loc[k] EXCEPT !.killed = TRUE])
       \/ /\ os[loc[k].pid] = "alive"
          /\ PM_StopExcept(k, [loc[k] EXCEPT !.killed = TRUE])
          /\ UNCHANGED os
    /\ UNCHANGED <<impl, logVars, waVars, pm_is_monitoring, onlyStarts>>

\* app.py, restart_process, lines 199-208: after the sleep, start_process.
PM_RestartWake(k) ==
    /\ impl = "mgr" /\ pc[k] = "restart_sleep" /\ pm_loop = None
    /\ \E z \in ZombieProbe : PM_StartBody(k, "restart", z)
    /\ UNCHANGED <<impl, logVars, waVars, pm_is_monitoring, onlyStarts>>

\* get_status, lines 154-178: the dictionary it returns.
PM_StatusResult(k, pr) ==
    IF pr = "running"
    THEN StatusResult(k, TRUE, "running", pm_process_info, pm_start_time,
                      "val", "val", "val")
    ELSE StatusResult(k, FALSE, "stopped", None, None, "null", "null", "null")

\* get_status, lines 125-178, as the status endpoint calls it.
PM_Status(k) ==
    /\ impl = "mgr" /\ pc[k] = "idle" /\ pm_loop = None
    /\ onlyStarts' = FALSE
    /\ \E z \in ZombieProbe :
         /\ PM_StatusEffect(PMProbe(z))
         /\ ret' = PM_StatusResult(k, PMProbe(z))
    /\ UNCHANGED <<impl, logVars, os, waVars, pm_is_monitoring, pm_loop, pc, op, loc>>

\* _monitoring_loop, lines 372-383: get_status every check_interval; a step only
\* when it finds the recorded worker gone.
PM_MonitorTick ==
    /\ impl = "mgr" /\ pm_is_monitoring /\ pm_loop = None
    /\ \E z \in ZombieProbe : PMProbe(z) = "nosuch"
    /\ PM_Cleanup
    /\ ret' = NoRet
    /\ UNCHANGED <<impl, logVars, os, waVars, pm_is_monitoring, pm_loop, pc, op, loc, onlyStarts>>

----------------------------------------------------------------------------

\* ConnectionManager.__init__ and LogMonitor.__init__: no connection, no record.
HubInit ==
    /\ active_connections = <<>>
    /\ sess = [c \in Conns |-> "new"]
    /\ client = [c \in Conns |-> "ok"]
    /\ recv = [c \in Conns |-> <<>>]
    /\ history_at_join = [c \in Conns |-> <<>>]
    /\ pub_pc = "idle" /\ pub_idx = 0 /\ pub_cur = None /\ pub_rec = 0 /\ pub_n = 0
    /\ disconnected = <<>> /\ pub_stable = {}
    /\ log_buffer = <<>>
    /\ ponged = [c \in Conns |-> FALSE]

\* web_app.py, ProcessManager.__init__: an empty queue; no stream request yet.
QueueInit ==
    /\ log_queue = <<>>
    /\ stream = [v \in Viewers |-> "off"]
    /\ got = [v \in Viewers |-> <<>>]
    /\ last_msg = [v \in Viewers |-> "none"]
    /\ produced = 0
    /\ audience = [l \in 1..MaxOut |-> {}]
    /\ rq_pc = "idle" /\ temp_queue = <<>> /\ logs = <<>>

\* LogMonitor.__init__ and a process manager without a worker: no request yet.
MonInit ==
    /\ ep_pc = [k \in Callers |-> "idle"]
    /\ ep_wait = [k \in Callers |-> None]
    /\ process_info = FALSE
    /\ is_monitoring = FALSE
    /\ monitoring_task = None
    /\ log_callback = "none"
    /\ task = [i \in Tasks |-> "unborn"]
    /\ stop_ok = FALSE

\* web_app.py, ProcessManager.__init__ (lines 31-36): no worker, no reader thread.
ReaderInit ==
    /\ rd_status = "stopped" /\ rd_process = None /\ rd_pc = "idle"
    /\ rd_worker = [p \in Pids |-> "unborn"]
    /\ rd_stdout = [p \in Pids |-> "open"]
    /\ rd_pipe = [p \in Pids |-> 0]
    /\ rd_printed = 0 /\ rd_enqueued = 0
    /\ output_thread = None
    /\ rd_thread = [i \in Threads |-> "unborn"]
    /\ rd_reads = [i \in Threads |-> None]

\* web_frontend: LogService.__init__ (lines 60-71) and XianyuWebApp.__init__
\* (lines 48-49), the log file holding n lines.
FrontInitWith(n) ==
    /\ fs_lines = n
    /\ fs_last_position = 0
    /\ fs_monitoring = FALSE
    /\ connected_clients = {}
    /\ fs_recv = [v \in Viewers |-> <<>>]
    /\ fs_sent = {}
    /\ fs_live_from = 0
    /\ fs_requests = 0

FrontIdle == FrontInitWith(0)

\* get_log_statistics has not been called; b is the buffer it will find.
StatInitWith(b) ==
    /\ stat_buffer = b
    /\ stats = [taken |-> FALSE, total_count |-> 0, level_counts |-> <<>>,
                recent_errors |-> <<>>]

StatIdle == StatInitWith(<<>>)

\* No line has been given to a parser; l is the line that will be.
ParseInitWith(l) == p_line = l /\ p_impl = "none" /\ p_out = <<>>

ParseIdle == ParseInitWith(<<>>)

\* The three bytes of line l: head of its text, rest of its text, newline.
Bytes(l) == <<3 * l - 2, 3 * l - 1, 3 * l>>

IsNewline(b) == b % 3 = 0

\* The file holding the lines 1..n.
RECURSIVE FileOf(_)
FileOf(n) == IF n = 0 THEN <<>> ELSE FileOf(n - 1) \o Bytes(n)

\* No snapshot was returned by the last step.
NoSnap == [taken |-> FALSE, limit |-> 0, records |-> <<>>]

\* LogMonitor.__init__, with logs/app.log absent (n = -1) or holding n lines.
TailInitWith(n) ==
    /\ file = IF n < 0 THEN <<>> ELSE FileOf(n)
    /\ file_exists = (n >= 0)
    /\ next_line = IF n < 0 THEN 1 ELSE n + 1
    /\ lm_pc = "new"
    /\ last_position = 0 /\ current_size = 0
    /\ emitted = <<>>
    /\ snap = NoSnap
    /\ live_from = 0 /\ touched = FALSE /\ settled = FALSE
    /\ absent_polled = FALSE /\ pushed = <<>>

TailIdle == TailInitWith(-1)

Init ==
    /\ HubInit
    /\ QueueInit
    /\ TailIdle
    /\ MonInit
    /\ ParseIdle
    /\ ReaderInit
    /\ FrontIdle
    /\ StatIdle
    /\ impl \in {"app", "mgr"}
    /\ os = [p \in Pids |-> "unborn"]
    /\ wa_status = "stopped" /\ wa_process = None /\ wa_start_time = None /\ wa_lock = None
    /\ pm_process = None /\ pm_process_info = None /\ pm_start_time = None
    /\ pm_is_monitoring = FALSE /\ pm_loop = None
    /\ pc = [c \in Callers |-> "idle"]
    /\ op = [c \in Callers |-> "none"]
    /\ loc = [c \in Callers |-> NoLoc]
    /\ ret = NoRet
    /\ onlyStarts = TRUE

Next ==
    \/ \E p \in Pids : WorkerExit(p)
    \/ \E t \in Callers : WA_StartBegin(t)
    \/ \E t \in Callers : WA_StartSpawn(t)
    \/ \E t \in Callers : WA_StartReturn(t)
    \/ \E t \in Callers : WA_StopBegin(t)
    \/ \E t \in Callers : WA_StopTerm(t)
    \/ \E t \in Callers : WA_StopWait(t)
    \/ \E t \in Callers : WA_StopKill(t)
    \/ \E t \in Callers : WA_Status(t)
    \/ \E k \in Callers : PM_Start(k)
    \/ \E k \in Callers : PM_StartWake(k)
    \/ \E k \in Callers : PM_Stop(k)
    \/ \E k \in Callers : PM_Restart(k)
    \/ \E k \in Callers : PM_StopTerm(k)
    \/ \E k \in Callers : PM_StopWait(k)
    \/ \E k \in Callers : PM_StopKill(k)
    \/ \E k \in Callers : PM_RestartWake(k)
    \/ \E k \in Callers : PM_Status(k)
    \/ PM_MonitorTick

Spec == Init /\ [][Next]_vars

----------------------------------------------------------------------------
\* Properties of the supervisor.

\* The supervisor's recorded handle (self.process).
Handle == IF impl = "app" THEN wa_process ELSE pm_process

AllIdle == \A c \in Callers : pc[c] = "idle"

\* C1: with nothing but start() calls, in any interleaving, made on a stopped
\* supervisor, every live spawned worker is the supervisor's recorded handle (at most
\* one worker is spawned and left alive).
C1_SingleLiveWorker ==
    onlyStarts => \A p \in Pids : os[p] = "alive" => p = Handle

\* C2: once a stop() has returned (graceful exit, force-kill or exception) and no
\* other operation is in progress, the supervisor is stopped with process, pid and
\* start time cleared, and a status() made now reports not running.
C2_StopLeavesNoHandle ==
    (ret.type = "op" /\ ret.op = "stop" /\ AllIdle) =>
        IF impl = "app"
        THEN /\ wa_status = "stopped" /\ wa_process = None /\ wa_start_time = None
             /\ ~WA_StatusResult(ret.who).is_running
        ELSE /\ pm_process = None /\ pm_process_info = None /\ pm_start_time = None
             /\ \A z \in ZombieProbe : ~PM_StatusResult(ret.who, PMProbe(z)).is_running

\* C3: a status() result never reports running a worker whose OS process has exited;
\* a status() that found the recorded process gone leaves the handle cleared and
\* the state stopped; and a repeated status() returns the same answer.
C3_StatusReflectsExit ==
    ret.type = "status" =>
        /\ ret.is_running => os[ret.pid] = "alive"
        /\ ~ret.is_running =>
              IF impl = "app"
              THEN wa_status # "running" /\ (wa_status = "stopped" => wa_process = None)
              ELSE pm_process_info = None
        /\ IF impl = "app"
           THEN WA_StatusResult(ret.who) = ret
           ELSE \E z \in ZombieProbe : PM_StatusResult(ret.who, PMProbe(z)) = ret

\* C5: start() never returns success for a worker that has already exited: a worker
\* that exits right after it was spawned makes start() return a failure.
C5_NoSuccessForExitedWorker ==
    (ret.type = "op" /\ ret.via = "start" /\ ret.success) => os[ret.pid] = "alive"

\* C10: a status result that reports not running (is_running false, or status
\* "stopped") has pid, start time, cpu, memory and uptime all null.
C10_NotRunningFieldsNull ==
    (ret.type = "status" /\ (~ret.is_running \/ ret.status = "stopped")) =>
        /\ ret.pid = None /\ ret.start_time = None
        /\ ret.cpu = "null" /\ ret.mem = "null" /\ ret.uptime = "null"

\* The worker the supervisor has on record is running.
WorkerRunning ==
    IF impl = "app"
    THEN wa_status = "running" /\ wa_process # None /\ os[wa_process] = "alive"
    ELSE pm_process_info # None /\ os[pm_process_info] = "alive"

\* A call of start(): of the start endpoint, or by restart.
StartCall(k) == WA_StartBegin(k) \/ PM_Start(k) \/ PM_RestartWake(k)

SupervisorFields ==
    <<wa_status, wa_process, wa_start_time, pm_process, pm_process_info, pm_start_time>>

NoWorkerAlive == \A p \in Pids : os[p] # "alive"

\* C33: a start() of web_app.py called while no worker process is alive, also
\* right after the worker exited on its own with no status query in between, is
\* not refused as "already running".
C33_StartAfterExitNotRefused ==
    [][\A k \in Callers :
          (NoWorkerAlive /\ WA_StartBegin(k)) => ret'.kind # "already_running"]_vars

C7_KillOnlyAfterTermAndTimeout ==
    /\ \A c \in Callers : pc[c] = "stop_kill" => loc[c].termed /\ loc[c].expired
    /\ \A c \in Callers : pc[c] = "stop_wait" => loc[c].termed
    /\ ret.killed => ret.termed /\ ret.expired
    /\ (ret.type = "op" /\ ret.via = "stop" /\ ret.killed /\ os[ret.target] # "alive")
          => ret.success

\* C7, its case: a stop that had to force-kill returned success.
C7_Witness ==
    ret.type = "op" /\ ret.via = "stop" /\ ret.killed /\ ret.success

\* C8: restart spawns only after its stop has returned, never while the worker that
\* stop handled is alive; it goes on to start also when stop found nothing running;
\* and it returns stop's result only when stop failed, start's result otherwise.
C8_RestartStopsThenStarts ==
    /\ [](ret.op = "restart" =>
            /\ ret.kind # "not_running"
            /\ ret.via = "stop" => ~ret.success)
    /\ [][\A k \in Callers :
            (op'[k] = "restart" /\ pc'[k] = "start_sleep" /\ pc[k] # "start_sleep") =>
                /\ pc[k] = "restart_sleep"
                /\ loc[k].stopkind \in {"stopped", "not_running"}
                /\ loc[k].pid # None => os[loc[k].pid] = "gone"]_vars

\* C8, its case: a restart that stopped a worker has spawned the new one.
C8_Witness ==
    \E k \in Callers :
        /\ op[k] = "restart" /\ pc[k] = "start_sleep"
        /\ loc[k].stopkind = "stopped" /\ os[loc[k].pid] = "gone"
        /\ os[pm_process] = "alive"

\* The lifecycle edges of web_app.py's self.status.
LifecycleEdges ==
    {<<"stopped", "starting">>, <<"starting", "running">>, <<"running", "stopping">>,
     <<"stopping", "stopped">>, <<"starting", "stopped">>, <<"running", "stopped">>}

\* C9: when a start, stop or status returns, normally or through its except branch,
\* self.status is stopped or running; and self.status changes only along
\* stopped -> starting -> running -> stopping -> stopped or directly to stopped.
C9_NoTransientStateAtReturn ==
    /\ []((impl = "app" /\ (ret.type # "none" \/ wa_lock = None)) =>
             wa_status \in {"stopped", "running"})
    /\ [][wa_status' # wa_status => <<wa_status, wa_status'>> \in LifecycleEdges]_vars

\* C9, its case: a stop has returned through its except branch.
C9_Witness ==
    impl = "app" /\ ret.op = "stop" /\ ret.kind = "exception" /\ wa_status = "stopped"

----------------------------------------------------------------------------
\* web_manager/backend: the broadcast hub (ConnectionManager), the viewer
\* sessions (websocket_logs) and the publisher (LogMonitor._process_log_entry).
\* A coroutine runs without interruption from one await to the next; each action
\* below is one such stretch.

Range(list) == {list[i] : i \in DOMAIN list}

IsPrefix(p, q) == Len(p) <= Len(q) /\ \A i \in 1..Len(p) : p[i] = q[i]

\* list.remove(c): the list holds a connection at most once.
Remove(list, c) == SelectSeq(list, LAMBDA x : x # c)

\* ConnectionManager.disconnect, a variant that leaves the list alone.
CM_Disconnect_Keep(list, c) == list

\* ConnectionManager.disconnect.
CM_Disconnect(list, c) == IF c \in Range(list) THEN Remove(list, c) ELSE list

\* The cleanup loop of broadcast_log: disconnect every connection of d.
RECURSIVE CM_DisconnectAll(_, _)
CM_DisconnectAll(list, d) ==
    IF d = <<>> THEN list ELSE CM_DisconnectAll(CM_Disconnect(list, Head(d)), Tail(d))

\* _add_to_buffer without the eviction of the oldest record.
AddToBuffer_NoEvict(buf, r) == Append(buf, r)

\* LogMonitor._add_to_buffer.
AddToBuffer(buf, r) ==
    LET b == Append(buf, r)
    IN  IF Len(b) > max_buffer_size
        THEN SubSeq(b, Len(b) - max_buffer_size + 1, Len(b))
        ELSE b

\* websocket_logs up to its first send: accept() on a connection whose remote end
\* is already gone raises before the try block; otherwise the connection is
\* appended to the list.
WS_Connect(c) ==
    /\ sess[c] = "new"
    /\ IF client[c] = "gone"
       THEN /\ sess' = [sess EXCEPT ![c] = "closed"]
            /\ UNCHANGED <<active_connections, history_at_join>>
       ELSE /\ sess' = [sess EXCEPT ![c] = "welcome"]
            /\ active_connections' = Append(active_connections, c)
            /\ history_at_join' = [history_at_join EXCEPT ![c] = log_buffer]
    /\ UNCHANGED <<client, recv, pub_pc, pub_idx, pub_cur, pub_rec, pub_n, disconnected,
                   pub_stable, log_buffer, nonHubVars>>

\* websocket_logs: the welcome message has been sent, the receive loop begins.
WS_Welcome(c) ==
    /\ sess[c] = "welcome"
    /\ client[c] = "ok"
    /\ sess' = [sess EXCEPT ![c] = "active"]
    /\ UNCHANGED <<active_connections, client, recv, history_at_join, pub_pc, pub_idx,
                   pub_cur, pub_rec, pub_n, disconnected, pub_stable, log_buffer, nonHubVars>>

\* websocket_logs ends (WebSocketDisconnect, a receive error, a failed welcome):
\* its finally block disconnects, and the server closes the socket.
WS_Close(c) ==
    /\ sess[c] \in {"welcome", "active"}
    /\ sess' = [sess EXCEPT ![c] = "closed"]
    /\ client' = [client EXCEPT ![c] = "gone"]
    /\ active_connections' = CM_Disconnect(active_connections, c)
    /\ pub_stable' = IF pub_pc = "await" THEN pub_stable \ {c} ELSE pub_stable
    /\ UNCHANGED <<recv, history_at_join, pub_pc, pub_idx, pub_cur, pub_rec, pub_n,
                   disconnected, log_buffer, nonHubVars>>

\* The remote end stops reading: a send to it does not complete.
ClientStall(c) ==
    /\ sess[c] \in {"welcome", "active"}
    /\ client[c] = "ok"
    /\ client' = [client EXCEPT ![c] = "stalled"]
    /\ UNCHANGED <<active_connections, sess, recv, history_at_join, pub_pc, pub_idx,
                   pub_cur, pub_rec, pub_n, disconnected, pub_stable, log_buffer, nonHubVars>>

\* The remote end goes away: a send to it raises.
ClientGone(c) ==
    /\ sess[c] \in {"new", "welcome", "active"}
    /\ client[c] \in {"ok", "stalled"}
    /\ client' = [client EXCEPT ![c] = "gone"]
    /\ UNCHANGED <<active_connections, sess, recv, history_at_join, pub_pc, pub_idx,
                   pub_cur, pub_rec, pub_n, disconnected, pub_stable, log_buffer, nonHubVars>>

\* The records _parse_log_content returns for the lines 1..MaxRec, a variant that
\* returns them last line first.
new_logs_Reversed == [i \in 1..MaxRec |-> MaxRec + 1 - i]

\* The records _parse_log_content returns for the lines 1..MaxRec of the file:
\* one per line, in the order of the lines; record r stands for line r.
new_logs == [i \in 1..MaxRec |-> i]

\* _monitoring_loop: `for log_entry in new_logs`.
NextRecord == new_logs[pub_n + 1]

\* LogMonitor._process_log_entry up to the first send of broadcast_log.
LM_Process ==
    /\ pub_pc = "idle"
    /\ pub_n < MaxRec
    /\ pub_n' = pub_n + 1
    /\ pub_rec' = NextRecord
    /\ log_buffer' = AddToBuffer(log_buffer, NextRecord)
    /\ disconnected' = <<>>
    /\ IF active_connections = <<>>
       THEN /\ pub_stable' = {}
            /\ UNCHANGED <<pub_pc, pub_idx, pub_cur>>
       ELSE /\ pub_stable' = Range(active_connections)
            /\ pub_pc' = "await"
            /\ pub_idx' = 1
            /\ pub_cur' = active_connections[1]
    /\ UNCHANGED <<active_connections, sess, client, recv, history_at_join, nonHubVars>>

\* broadcast_log from the end of one send_json to the next one, or to its return.
\* The list iterator holds an index into the live list.
BC_Step ==
    /\ pub_pc = "await"
    /\ client[pub_cur] # "stalled"
    /\ LET failed == client[pub_cur] = "gone"
           d == IF failed THEN Append(disconnected, pub_cur) ELSE disconnected
       IN  /\ disconnected' = d
           /\ recv' = IF failed THEN recv
                      ELSE [recv EXCEPT ![pub_cur] = Append(@, pub_rec)]
           /\ IF pub_idx < Len(active_connections)
              THEN /\ pub_cur' = active_connections[pub_idx + 1]
                   /\ pub_idx' = pub_idx + 1
                   /\ UNCHANGED <<pub_pc, active_connections>>
              ELSE /\ active_connections' = CM_DisconnectAll(active_connections, d)
                   /\ pub_pc' = "idle"
                   /\ pub_cur' = None
                   /\ pub_idx' = 0
    /\ UNCHANGED <<sess, client, history_at_join, pub_rec, pub_n, pub_stable, log_buffer, nonHubVars>>

\* The supervisor at rest.
SupIdle ==
    /\ impl = "mgr"
    /\ os = [p \in Pids |-> "unborn"]
    /\ wa_status = "stopped" /\ wa_process = None /\ wa_start_time = None /\ wa_lock = None
    /\ pm_process = None /\ pm_process_info = None /\ pm_start_time = None
    /\ pm_is_monitoring = FALSE /\ pm_loop = None
    /\ pc = [c \in Callers |-> "idle"]
    /\ op = [c \in Callers |-> "none"]
    /\ loc = [c \in Callers |-> NoLoc]
    /\ ret = NoRet
    /\ onlyStarts = TRUE

InitHub == SupIdle /\ HubInit /\ QueueInit /\ TailIdle /\ MonInit /\ ParseIdle /\ ReaderInit /\ FrontIdle /\ StatIdle

NextHub ==
    \/ \E c \in Conns : WS_Connect(c)
    \/ \E c \in Conns : WS_Welcome(c)
    \/ \E c \in Conns : WS_Close(c)
    \/ \E c \in Conns : ClientStall(c)
    \/ \E c \in Conns : ClientGone(c)
    \/ LM_Process
    \/ BC_Step

SpecHub == InitHub /\ [][NextHub]_vars

----------------------------------------------------------------------------
\* Properties of the broadcast hub and the viewer sessions (SpecHub).

Count(list, r) == Cardinality({i \in DOMAIN list : list[i] = r})

\* A publish has run to its end and none has begun since.
PublishEnded == pub_pc = "idle" /\ pub_rec > 0

\* The subscribers of the last publish that stayed registered throughout it and
\* whose send did not fail.
StableHealthy == pub_stable \ Range(disconnected)

\* C11: at the end of every publish, each subscriber that was registered from
\* before the publish began until it ended, and whose own send did not fail, has
\* been sent the published record exactly once, also when other subscribers
\* connect, disconnect or fail during the publish.
C11_StableSubscriberSentOnce ==
    PublishEnded => \A c \in StableHealthy : Count(recv[c], pub_rec) = 1

\* C13: a subscriber whose send never completes blocks neither the publisher nor
\* the other subscribers: the publish is never waiting on a subscriber that does
\* not drain while another healthy subscriber of this publish is still without
\* the record.
C13_SlowSubscriberIsolated ==
    (pub_pc = "await" /\ client[pub_cur] = "stalled")
        => \A d \in pub_stable \ {pub_cur} :
               client[d] = "ok" => pub_rec \in Range(recv[d])

\* C14: when a send fails during a publish, the failing subscriber is out of the
\* subscriber set by the end of that publish and every other subscriber of the
\* publish has received the record.
C14_FailedSendIsolated ==
    (PublishEnded /\ disconnected # <<>>)
        => /\ \A c \in Range(disconnected) : c \notin Range(active_connections)
           /\ \A c \in StableHealthy : pub_rec \in Range(recv[c])

\* C15: the subscriber set holds only connections whose session handler is still
\* running; once a session has ended (client disconnect, receive error, failed
\* send) its connection is not in the set.
C15_SubscribersHaveLiveSession ==
    \A c \in Conns :
        c \in Range(active_connections) => sess[c] \in {"welcome", "active"}

\* C15, its case: a session that was subscribed and received a record has ended
\* while another connection is subscribed.
C15_Witness ==
    \E c \in Conns :
        /\ sess[c] = "closed" /\ recv[c] # <<>>
        /\ \E d \in Conns \ {c} : d \in Range(active_connections)

\* C16: a viewer session is sent the history records (the history buffer as it
\* was when the session joined) before any live record: whatever it has been
\* sent begins with that history.
C16_HistoryBeforeLive ==
    \A c \in Conns : recv[c] # <<>> => IsPrefix(history_at_join[c], recv[c])

\* C17: each subscriber receives the records of the tail loop in the order of
\* their lines in the log file: a record of an earlier line is never received
\* after a record of a later line.
C17_PerSubscriberFileOrder ==
    \A c \in Conns : \A i, j \in DOMAIN recv[c] : i < j => recv[c][i] < recv[c][j]

\* C17, its case: a subscriber has received two records, while another subscriber
\* joined between the two publishes.
C17_Witness ==
    \E c, d \in Conns :
        /\ Len(recv[c]) >= 2
        /\ Len(recv[d]) = 1

----------------------------------------------------------------------------
\* web_app.py: the worker's output queue and the viewers' log streams. The reader
\* thread and every stream request run in threads of their own; Queue.put and
\* Queue.get are atomic.

\* _monitor_process_output: the reader thread enqueues the next line the worker
\* printed; line l is the l-th line of the run.
OutputPut ==
    /\ produced < MaxOut
    /\ produced' = produced + 1
    /\ log_queue' = Append(log_queue, produced + 1)
    /\ audience' = [audience EXCEPT ![produced + 1] = {v \in Viewers : stream[v] = "open"}]
    /\ UNCHANGED <<stream, got, last_msg, rq_pc, temp_queue, logs, nonQueueVars>>

\* log_stream: a viewer's request arrives; generate() yields the connected message.
StreamOpen(v) ==
    /\ stream[v] = "off"
    /\ stream' = [stream EXCEPT ![v] = "open"]
    /\ last_msg' = [last_msg EXCEPT ![v] = "connected"]
    /\ UNCHANGED <<log_queue, got, produced, audience, rq_pc, temp_queue, logs, nonQueueVars>>

\* get_log_stream: log_queue.get(timeout=1.0) returns a line, which is yielded.
StreamGet(v) ==
    /\ stream[v] = "open"
    /\ log_queue # <<>>
    /\ log_queue' = Tail(log_queue)
    /\ got' = [got EXCEPT ![v] = Append(@, Head(log_queue))]
    /\ last_msg' = [last_msg EXCEPT ![v] = "log"]
    /\ UNCHANGED <<stream, produced, audience, rq_pc, temp_queue, logs, nonQueueVars>>

\* get_log_stream: log_queue.get(timeout=1.0) raises Empty, a heartbeat is yielded.
StreamHeartbeat(v) ==
    /\ stream[v] = "open"
    /\ log_queue = <<>>
    /\ last_msg[v] # "heartbeat"
    /\ last_msg' = [last_msg EXCEPT ![v] = "heartbeat"]
    /\ UNCHANGED <<log_queue, stream, got, produced, audience, rq_pc, temp_queue, logs,
                   nonQueueVars>>

\* The viewer closes its request; the response generator is closed.
StreamClose(v) ==
    /\ stream[v] = "open"
    /\ stream' = [stream EXCEPT ![v] = "closed"]
    /\ audience' = [l \in 1..MaxOut |-> audience[l] \ {v}]
    /\ UNCHANGED <<log_queue, got, last_msg, produced, rq_pc, temp_queue, logs, nonQueueVars>>

\* /api/logs/recent: get_recent_logs is entered; logs and temp_queue start empty.
RQ_Begin ==
    /\ rq_pc = "idle"
    /\ rq_pc' = "drain"
    /\ temp_queue' = <<>> /\ logs' = <<>>
    /\ UNCHANGED <<log_queue, stream, got, last_msg, produced, audience, nonQueueVars>>

\* One turn of the first loop of get_recent_logs: get_nowait() moves the head of
\* log_queue to logs and temp_queue; an empty queue ends the loop.
RQ_Drain ==
    /\ rq_pc = "drain"
    /\ IF log_queue # <<>>
       THEN /\ log_queue' = Tail(log_queue)
            /\ logs' = Append(logs, Head(log_queue))
            /\ temp_queue' = Append(temp_queue, Head(log_queue))
            /\ UNCHANGED rq_pc
       ELSE /\ rq_pc' = "refill"
            /\ UNCHANGED <<log_queue, logs, temp_queue>>
    /\ UNCHANGED <<stream, got, last_msg, produced, audience, nonQueueVars>>

\* One turn of the second loop: the head of temp_queue is put back at the tail of
\* log_queue; with temp_queue empty get_recent_logs returns.
RQ_Refill ==
    /\ rq_pc = "refill"
    /\ IF temp_queue # <<>>
       THEN /\ log_queue' = Append(log_queue, Head(temp_queue))
            /\ temp_queue' = Tail(temp_queue)
            /\ UNCHANGED rq_pc
       ELSE /\ rq_pc' = "idle"
            /\ UNCHANGED <<log_queue, temp_queue>>
    /\ UNCHANGED <<logs, stream, got, last_msg, produced, audience, nonQueueVars>>

InitQueue == SupIdle /\ HubInit /\ QueueInit /\ TailIdle /\ MonInit /\ ParseIdle /\ ReaderInit /\ FrontIdle /\ StatIdle

NextQueue ==
    \/ OutputPut
    \/ RQ_Begin
    \/ RQ_Drain
    \/ RQ_Refill
    \/ \E v \in Viewers : StreamOpen(v)
    \/ \E v \in Viewers : StreamGet(v)
    \/ \E v \in Viewers : StreamHeartbeat(v)
    \/ \E v \in Viewers : StreamClose(v)

SpecQueue == InitQueue /\ [][NextQueue]_vars

\* C12: every line the worker printed while two or more viewers were connected to
\* the stream is delivered to each of those viewers: once a line has left the
\* queue, every viewer connected since the line was enqueued has been sent it.
C12_FanOutToEveryViewer ==
    \A l \in 1..produced :
        (Cardinality(audience[l]) >= 2 /\ l \notin Range(log_queue) \cup Range(temp_queue))
            => \A v \in audience[l] : l \in Range(got[v])

\* The lines some viewer was sent.
Delivered == UNION {Range(got[v]) : v \in Viewers}

\* C24: a recent-logs query that runs while the output reader enqueues lines and
\* viewer streams dequeue them leaves the queue as if it had not run: when no
\* query is in progress the queue holds exactly the lines enqueued and not yet
\* sent to a viewer, each once, in the order the reader enqueued them.
C24_QueryLeavesQueueIntact ==
    rq_pc = "idle" =>
        /\ \A i, j \in DOMAIN log_queue : i < j => log_queue[i] < log_queue[j]
        /\ Range(log_queue) = (1..produced) \ Delivered

----------------------------------------------------------------------------
\* web_manager/backend/services/log_monitor.py: the tail loop over logs/app.log
\* and the history buffer. The worker is another process: it writes the file
\* between any two system calls of the loop.

Min(a, b) == IF a < b THEN a ELSE b

\* content.split('\n') without its blank pieces; piece is the line being read.
RECURSIVE Split(_, _)
Split(content, piece) ==
    IF content = <<>>
    THEN IF piece = <<>> THEN <<>> ELSE <<piece>>
    ELSE IF IsNewline(Head(content))
         THEN (IF piece = <<>> THEN <<>> ELSE <<piece>>) \o Split(Tail(content), <<>>)
         ELSE Split(Tail(content), Append(piece, Head(content)))

\* LogMonitor._parse_log_content: one record per non-blank line of the content;
\* _parse_log_line returns a record for every such line (the record is written
\* here as the text bytes of its line).
ParseContent(content) == Split(content, <<>>)

\* The record of the whole line l.
Rec(l) == <<3 * l - 2, 3 * l - 1>>

\* The last n elements of a list: list[-n:] for n > 0.
LastN(list, n) == SubSeq(list, Len(list) - n + 1, Len(list))

\* _load_recent_logs: the records of the last tail_lines lines of the file.
LoadRecent(f) ==
    LET lines == ParseContent(f)
    IN  IF Len(lines) > tail_lines THEN LastN(lines, tail_lines) ELSE lines

\* LogMonitor.get_recent_logs: log_buffer[-limit:] when the buffer is longer than
\* limit (in Python list[-0:] is the whole list).
GetRecentLogs(buf, limit) ==
    IF Len(buf) > limit
    THEN IF limit = 0 THEN buf ELSE LastN(buf, limit)
    ELSE buf

\* _read_new_content: seek(start_pos), read(end_pos - start_pos); "" when the
\* file cannot be opened or read.
ReadNewContent(ok, start_pos, end_pos) ==
    IF ok /\ file_exists
    THEN SubSeq(file, start_pos + 1, Min(end_pos, Len(file)))
    ELSE <<>>

\* _process_log_entry for every record of a list, in order: the buffer afterwards.
RECURSIVE ProcessAll(_, _)
ProcessAll(buf, recs) ==
    IF recs = <<>> THEN buf ELSE ProcessAll(AddToBuffer(buf, Head(recs)), Tail(recs))

\* The file ends inside a line: the worker has written the first part of a line
\* and not yet the rest.
MidLine == file # <<>> /\ file[Len(file)] % 3 = 1

\* The worker appends its next line, creating the file when it is missing.
W_Append ==
    /\ next_line <= MaxLines /\ ~MidLine
    /\ file' = file \o Bytes(next_line)
    /\ file_exists' = TRUE
    /\ next_line' = next_line + 1
    /\ touched' = TRUE /\ settled' = FALSE /\ snap' = NoSnap
    /\ UNCHANGED <<lm_pc, last_position, current_size, emitted, log_buffer, live_from,
                   absent_polled, pushed, nonTailVars>>

\* The worker writes the first part of its next line: its buffer is flushed
\* inside the line.
W_AppendPart ==
    /\ next_line <= MaxLines /\ ~MidLine
    /\ file' = Append(file, 3 * next_line - 2)
    /\ file_exists' = TRUE
    /\ next_line' = next_line + 1
    /\ touched' = TRUE /\ settled' = FALSE /\ snap' = NoSnap
    /\ UNCHANGED <<lm_pc, last_position, current_size, emitted, log_buffer, live_from,
                   absent_polled, pushed, nonTailVars>>

\* The worker writes the rest of the line and its newline.
W_AppendRest ==
    /\ MidLine
    /\ file' = file \o <<file[Len(file)] + 1, file[Len(file)] + 2>>
    /\ touched' = TRUE /\ settled' = FALSE /\ snap' = NoSnap
    /\ UNCHANGED <<file_exists, next_line, lm_pc, last_position, current_size, emitted,
                   log_buffer, live_from, absent_polled, pushed, nonTailVars>>

\* The log file is truncated to zero length.
W_Truncate ==
    /\ file_exists /\ file # <<>>
    /\ file' = <<>>
    /\ touched' = TRUE /\ settled' = FALSE /\ snap' = NoSnap
    /\ absent_polled' = FALSE
    /\ UNCHANGED <<file_exists, next_line, lm_pc, last_position, current_size, emitted,
                   log_buffer, live_from, pushed, nonTailVars>>

\* The log file is removed (rotation: the worker creates a new one later).
W_Remove ==
    /\ file_exists
    /\ file' = <<>>
    /\ file_exists' = FALSE
    /\ touched' = TRUE /\ settled' = FALSE /\ snap' = NoSnap
    /\ absent_polled' = FALSE
    /\ UNCHANGED <<next_line, lm_pc, last_position, current_size, emitted,
                   log_buffer, live_from, pushed, nonTailVars>>

\* LogMonitor.initialize: _load_recent_logs appends the recent records to the buffer.
LM_Initialize ==
    /\ lm_pc = "new"
    /\ lm_pc' = "ready"
    /\ LET recent == IF file_exists THEN LoadRecent(file) ELSE <<>>
       IN  /\ log_buffer' = log_buffer \o recent
           /\ pushed' = pushed \o recent
    /\ snap' = NoSnap
    /\ UNCHANGED <<file, file_exists, next_line, last_position, current_size, emitted,
                   touched, settled, live_from, absent_polled, nonTailVars>>

\* start_monitoring and the head of _monitoring_loop: the offset starts at the
\* size of the file, at 0 when there is no file.
LM_Start ==
    /\ lm_pc = "ready"
    /\ lm_pc' = "poll"
    /\ last_position' = IF file_exists THEN Len(file) ELSE 0
    /\ live_from' = next_line
    /\ snap' = NoSnap
    /\ UNCHANGED <<file, file_exists, next_line, current_size, emitted, log_buffer,
                   touched, settled, absent_polled, pushed, nonTailVars>>

\* One turn of _monitoring_loop up to the read: exists(), stat().st_size and the
\* comparison with last_position.
LM_PollStat ==
    /\ lm_pc = "poll"
    /\ snap' = NoSnap
    /\ IF ~file_exists
       THEN absent_polled' = TRUE /\ UNCHANGED <<lm_pc, last_position, current_size, settled>>
       ELSE /\ current_size' = Len(file)
            /\ UNCHANGED absent_polled
            /\ IF Len(file) > last_position
               THEN lm_pc' = "read" /\ UNCHANGED <<last_position, settled>>
               ELSE IF Len(file) < last_position
                    THEN last_position' = 0 /\ UNCHANGED <<lm_pc, settled>>
                    ELSE settled' = TRUE /\ UNCHANGED <<lm_pc, last_position>>
    /\ UNCHANGED <<file, file_exists, next_line, emitted, log_buffer, touched, live_from,
                   pushed, nonTailVars>>

\* The rest of the turn: _read_new_content, _parse_log_content, _process_log_entry
\* for each record, then last_position = current_size.
LM_PollRead ==
    /\ lm_pc = "read"
    /\ \E ok \in BOOLEAN :
           LET new_content == ReadNewContent(ok, last_position, current_size)
               recs == ParseContent(new_content)
           IN  /\ emitted' = emitted \o recs
               /\ log_buffer' = ProcessAll(log_buffer, recs)
               /\ pushed' = pushed \o recs
    /\ last_position' = current_size
    /\ lm_pc' = "poll"
    /\ snap' = NoSnap
    /\ UNCHANGED <<file, file_exists, next_line, current_size, touched, settled, live_from,
                   absent_polled, nonTailVars>>

\* get_recent_logs(limit) is called and returns.
LM_GetRecentLogs(limit) ==
    /\ lm_pc # "new"
    /\ snap' = [taken |-> TRUE, limit |-> limit, records |-> GetRecentLogs(log_buffer, limit)]
    /\ UNCHANGED <<file, file_exists, next_line, lm_pc, last_position, current_size,
                   emitted, touched, settled, log_buffer, live_from, absent_polled, pushed,
                   nonTailVars>>

InitTail ==
    /\ SupIdle /\ HubInit /\ QueueInit /\ MonInit /\ ParseIdle /\ ReaderInit /\ FrontIdle /\ StatIdle
    /\ \E n \in -1..MaxLines : TailInitWith(n)

NextTail ==
    \/ W_Append
    \/ W_Truncate
    \/ W_Remove
    \/ LM_Initialize
    \/ LM_Start
    \/ LM_PollStat
    \/ LM_PollRead
    \/ \E limit \in 0..MaxLines : LM_GetRecentLogs(limit)

SpecTail == InitTail /\ [][NextTail]_vars

\* The tail loop over a file that the worker only appends to, in whole lines or
\* in parts of lines.
NextPart ==
    \/ W_Append
    \/ W_AppendPart
    \/ W_AppendRest
    \/ LM_Initialize
    \/ LM_Start
    \/ LM_PollStat
    \/ LM_PollRead

SpecPart == InitTail /\ [][NextPart]_vars

----------------------------------------------------------------------------
\* Properties of the tail loop and the history buffer (SpecTail).

\* The numbers of the lines that have a byte in the file.
LinesIn(f) == {(f[i] + 2) \div 3 : i \in DOMAIN f}

\* The file holds content written after a truncation or a removal: it does not
\* begin with line 1.
Truncated == file_exists /\ file # <<>> /\ file[1] # 1

\* The tail loop has caught up: since the last write a poll found nothing to read.
CaughtUp == lm_pc = "poll" /\ settled

\* C18: after the log file was truncated or replaced and new lines were appended,
\* in any amount and at any moment between the polls, every line of the new
\* content is delivered (once the tail loop has caught up with the file) and no
\* line is delivered twice.
C18_TruncationRereadsNewContent ==
    /\ (CaughtUp /\ Truncated)
           => \A l \in LinesIn(file) : l >= live_from => Rec(l) \in Range(emitted)
    /\ \A i, j \in DOMAIN emitted : i < j => emitted[i] # emitted[j]

\* C19: the tail offset is advanced past a range of the file only when the bytes
\* of that range were read and handed on for parsing: every byte of the file the
\* offset moves past in a read is a newline or lies in a record handed on.
C19_OffsetAdvancesOnlyOverReadBytes ==
    [][(lm_pc = "read" /\ last_position' > last_position)
          => \A i \in (last_position + 1)..Min(last_position', Len(file)) :
                 \/ IsNewline(file[i])
                 \/ \E k \in DOMAIN emitted' : file[i] \in Range(emitted'[k])]_vars

\* C20: for a log file holding N lines and left alone, a fresh tail pass
\* (initialize, start, one poll) followed by a history snapshot with a limit of at
\* least N yields exactly N records, one per line, in file order.
C20_FreshPassYieldsEveryLine ==
    (snap.taken /\ ~touched /\ file_exists /\ CaughtUp
        /\ snap.limit >= Cardinality(LinesIn(file)))
        => snap.records = ParseContent(file)

\* C21: while the log file does not exist a tail poll yields no records and leaves
\* the offset unchanged, and once the worker has created the file its lines are
\* delivered starting from the first line: when the tail loop has caught up with a
\* file created after a poll that found none, every line of the file was delivered.
C21_CreatedFileDeliveredFromFirstLine ==
    (CaughtUp /\ absent_polled /\ file_exists)
        => \A l \in LinesIn(file) : Rec(l) \in Range(emitted)

\* C22: the history buffer never holds more than max_buffer_size records, and
\* after n records were pushed it holds the most recent min(n, max_buffer_size) of
\* them in arrival order.
C22_BufferHoldsMostRecent ==
    /\ Len(log_buffer) <= max_buffer_size
    /\ log_buffer = LastN(pushed, Min(Len(pushed), max_buffer_size))

\* A push over capacity happened: more records were pushed than the buffer holds.
C22_Witness == Len(pushed) > max_buffer_size /\ Len(log_buffer) = max_buffer_size

\* C23: get_recent_logs(limit) returns the last min(limit, size) records of the
\* history buffer in arrival order, never more than limit records.
C23_RecentLogsWithinLimit ==
    snap.taken =>
        /\ Len(snap.records) <= snap.limit
        /\ snap.records = LastN(log_buffer, Min(snap.limit, Len(log_buffer)))

\* C26: while a stop() waits, up to its timeout, for the worker to exit, a status
\* query can still be answered: whenever a stop is in its wait, every idle caller
\* can take the step of a status query.
C26_StopWaitBlocksNobody ==
    \A t \in Callers :
        pc[t] = "stop_wait" =>
            \A u \in Callers : pc[u] = "idle" => ENABLED (WA_Status(u) \/ PM_Status(u))

----------------------------------------------------------------------------
\* web_manager/backend/app.py, websocket_logs: the liveness messages of a session.
\* The handler sends the welcome message and then only answers: a "pong" for each
\* "ping" the viewer sends. The viewer decides whether and when it pings.

\* The receive loop: receive_text() returns "ping" and send_text("pong") completes.
WS_Ping(c) ==
    /\ sess[c] = "active"
    /\ client[c] = "ok"
    /\ ponged' = [ponged EXCEPT ![c] = TRUE]
    /\ UNCHANGED <<hubVars, log_buffer, supVars, queueVars, tailVars, monVars, parseVars,
                   readerVars, frontVars, statVars>>

NextBeat ==
    \/ NextHub
    \/ \E c \in Conns : WS_Ping(c)

\* The event loop runs every coroutine that is ready: the tail loop's publish, the
\* sends of a broadcast and the welcome of a new session are taken when they stay
\* enabled. Nothing obliges a viewer to send, to stall or to leave.
SpecBeat ==
    /\ InitHub
    /\ [][NextBeat]_vars
    /\ WF_vars(LM_Process)
    /\ WF_vars(BC_Step)
    /\ \A c \in Conns : WF_vars(WS_Welcome(c))

\* The viewer of connection c is connected: its session is in the receive loop
\* and its remote end is there and reading.
Connected(c) == sess[c] = "active" /\ client[c] = "ok"

\* C27: every connected viewer keeps receiving liveness/heartbeat messages for as
\* long as it stays connected, when the log is idle and when records are flowing:
\* a connected viewer is sent a heartbeat unless it stops being connected.
C27_ViewerKeepsReceivingHeartbeats ==
    \A c \in Conns : [](Connected(c) => <>(~Connected(c) \/ ponged[c]))

----------------------------------------------------------------------------
\* web_manager/backend/app.py: the start and stop endpoints and the deferred task
\* that starts log monitoring; log_monitor.py: start_monitoring, stop_monitoring.
\* The handlers are coroutines on one event loop. Of process_manager this part keeps
\* what the endpoints see: start_process suspends in its sleep and records the
\* worker afterwards; stop_process answers success when no worker is recorded.

\* start_process endpoint up to the sleep inside process_manager.start_process; a
\* recorded worker makes it return a failure at once.
EP_StartBegin(k) ==
    /\ ep_pc[k] = "idle"
    /\ stop_ok' = FALSE
    /\ ep_pc' = [ep_pc EXCEPT ![k] = IF process_info THEN "idle" ELSE "start_sleep"]
    /\ UNCHANGED <<ep_wait, process_info, is_monitoring, monitoring_task, log_callback,
                   task, nonMonVars>>

\* After the sleep: the worker is alive and recorded, the endpoint adds the
\* background task and returns; or the worker has exited and a failure is returned.
EP_StartWake(k) ==
    /\ ep_pc[k] = "start_sleep"
    /\ \E alive \in BOOLEAN :
          IF alive
          THEN /\ process_info' = TRUE
               /\ ep_pc' = [ep_pc EXCEPT ![k] = "background"]
          ELSE /\ process_info' = FALSE
               /\ ep_pc' = [ep_pc EXCEPT ![k] = "idle"]
    /\ UNCHANGED <<ep_wait, is_monitoring, monitoring_task, log_callback, task, stop_ok,
                   nonMonVars>>

\* start_monitoring, line 104: if self.is_monitoring.
AlreadyMonitoring == is_monitoring

\* The background task, run after the response was sent: start_log_monitoring and
\* start_monitoring, which creates the task of _monitoring_loop.
EP_StartLogMonitoring(k) ==
    /\ ep_pc[k] = "background"
    /\ ep_pc' = [ep_pc EXCEPT ![k] = "idle"]
    /\ IF AlreadyMonitoring
       THEN UNCHANGED <<is_monitoring, monitoring_task, log_callback, task>>
       ELSE /\ \E i \in Tasks : task[i] = "unborn"
            /\ LET i == CHOOSE j \in Tasks :
                            task[j] = "unborn" /\ \A h \in Tasks : h < j => task[h] # "unborn"
               IN  /\ log_callback' = "broadcast_log"
                   /\ is_monitoring' = TRUE
                   /\ monitoring_task' = i
                   /\ task' = [task EXCEPT ![i] = "running"]
    /\ UNCHANGED <<ep_wait, process_info, stop_ok, nonMonVars>>

\* No request is inside process_manager.start_process.
NoStartInProgress == \A j \in Callers : ep_pc[j] # "start_sleep"

\* stop_monitoring after its await: log_callback = None; the endpoint returns.
SM_Finish(k) ==
    /\ log_callback' = "none"
    /\ ep_pc' = [ep_pc EXCEPT ![k] = "idle"]
    /\ ep_wait' = [ep_wait EXCEPT ![k] = None]
    /\ stop_ok' = NoStartInProgress

\* stop_process endpoint: process_manager.stop_process, which succeeds unless an
\* exception is raised while a recorded worker is stopped, then stop_monitoring up
\* to its await of the cancelled task.
EP_Stop(k) ==
    /\ ep_pc[k] = "idle"
    /\ \E raised \in BOOLEAN :
          LET success == ~process_info \/ ~raised IN
          IF ~success
          THEN UNCHANGED monVars
          ELSE /\ process_info' = FALSE
               /\ IF ~is_monitoring
                  THEN /\ stop_ok' = NoStartInProgress
                       /\ UNCHANGED <<ep_pc, ep_wait, is_monitoring, monitoring_task,
                                       log_callback, task>>
                  ELSE /\ is_monitoring' = FALSE
                       /\ UNCHANGED monitoring_task
                       /\ IF monitoring_task = None \/ task[monitoring_task] = "done"
                          THEN SM_Finish(k) /\ UNCHANGED task
                          ELSE /\ task' = [task EXCEPT ![monitoring_task] = "cancelled"]
                               /\ ep_pc' = [ep_pc EXCEPT ![k] = "stop_await"]
                               /\ ep_wait' = [ep_wait EXCEPT ![k] = monitoring_task]
                               /\ UNCHANGED <<log_callback, stop_ok>>
    /\ UNCHANGED nonMonVars

\* _monitoring_loop: the cancelled task receives CancelledError and ends.
LM_TaskCancelled(i) ==
    /\ task[i] = "cancelled"
    /\ task' = [task EXCEPT ![i] = "done"]
    /\ UNCHANGED <<ep_pc, ep_wait, process_info, is_monitoring, monitoring_task,
                   log_callback, stop_ok, nonMonVars>>

\* stop_monitoring resumes when the task it awaits has ended.
EP_StopResume(k) ==
    /\ ep_pc[k] = "stop_await"
    /\ task[ep_wait[k]] = "done"
    /\ SM_Finish(k)
    /\ UNCHANGED <<process_info, is_monitoring, monitoring_task, task, nonMonVars>>

InitMon == SupIdle /\ HubInit /\ QueueInit /\ TailIdle /\ MonInit /\ ParseIdle /\ ReaderInit /\ FrontIdle /\ StatIdle

NextMon ==
    \/ \E k \in Callers : EP_StartBegin(k)
    \/ \E k \in Callers : EP_StartWake(k)
    \/ \E k \in Callers : EP_StartLogMonitoring(k)
    \/ \E k \in Callers : EP_Stop(k)
    \/ \E i \in Tasks : LM_TaskCancelled(i)
    \/ \E k \in Callers : EP_StopResume(k)

SpecMon == InitMon /\ [][NextMon]_vars

\* A task of _monitoring_loop is running.
LoopRunning == \E i \in Tasks : task[i] = "running"

\* C25: after a stop operation has returned success (no start operation being in
\* progress) the log tail loop is not running, and it is not started again before
\* the next start request, whatever the interleaving of start requests, stop
\* requests and the deferred task.
C25_NoTailLoopAfterStop == stop_ok => ~LoopRunning

\* A task of _monitoring_loop exists: it was created and has not ended.
LoopTasks == {i \in Tasks : task[i] \in {"running", "cancelled"}}

\* C39: at most one log tail loop task exists at any time, whatever the sequence
\* of start_monitoring and stop_monitoring calls: a start_monitoring called while
\* monitoring is active creates no task, and when stop_monitoring returns no loop
\* is running.
C39_AtMostOneTailLoop ==
    /\ [](Cardinality(LoopTasks) <= 1)
    /\ [][\A k \in Callers :
             (is_monitoring /\ EP_StartLogMonitoring(k)) => task' = task]_vars
    /\ [][\A k \in Callers : EP_StopResume(k) => ~LoopRunning']_vars

----------------------------------------------------------------------------
\* The two line parsers: LogMonitor._parse_log_line (log_monitor.py) and
\* LogService.parse_log_line (log_service.py). A line is the sequence of its
\* tokens: a timestamp, a word (\w+), or a punctuation mark. "|" and "-" stand
\* for the mark with a blank on either side, ":" for a colon without blanks,
\* "INDENT" for blanks at either end of the line.

\* 2024-01-20 10:30:00.123, 2024-01-20 10:30:00,123 and 2024-01-20 10:30:00.
Timestamps == {"TS.ms", "TS,ms", "TS"}

\* log_service.py line 71, and the alternatives of the pattern 'simple'.
log_levels == {"DEBUG", "INFO", "WARNING", "ERROR", "CRITICAL"}

\* The words that stand where a line has its level.
LevelWords == {"INFO", "ERROR", "SUCCESS", "info"}

\* Digit strings: what \d+ matches.
Numbers == {"42", "401"}

\* What \w+ matches. The words of _categorize_message that are not ASCII are
\* written in pinyin: "yonghu" (U+7528 U+6237), "yonghuming" (U+7528 U+6237
\* U+540D), "AIhuifu" (AI U+56DE U+590D), "jieguan" (U+63A5 U+7BA1).
Words == LevelWords \cup Numbers \cup
         {"main", "handle", "src", "module", "hello", "world", "disk", "full",
          "error", "comment", "WebSocket", "yonghu", "yonghuming", "AIhuifu",
          "jieguan"}

\* str.upper() of a token.
Upper(w) ==
    CASE w = "info" -> "INFO"
      [] w = "error" -> "ERROR"
      [] w = "main" -> "MAIN"
      [] w = "handle" -> "HANDLE"
      [] w = "src" -> "SRC"
      [] w = "module" -> "MODULE"
      [] w = "hello" -> "HELLO"
      [] w = "world" -> "WORLD"
      [] w = "disk" -> "DISK"
      [] w = "full" -> "FULL"
      [] w = "comment" -> "COMMENT"
      [] w = "WebSocket" -> "WEBSOCKET"
      [] OTHER -> w

\* The lines given to the parsers.
Indents == {<<>>, <<"INDENT">>}

Locations ==
    {<<"main", ":", "handle", ":", "42">>,
     <<"main", ":", "401">>,
     <<"src", ".", "main", ":", "handle", ":", "42">>,
     <<"main", ":", "<", "module", ">", ":", "42">>}

Messages ==
    {<<"hello">>, <<>>, <<"disk", "error">>,
     <<"WebSocket", "error">>,
     <<"yonghu", ":", "hello">>,
     <<"hello", "yonghuming">>,
     <<"AIhuifu", "jieguan">>,
     <<"jieguan", "error">>}

\* timestamp | LEVEL | location - message
BarLines ==
    {<<ts, "|", lv, "|">> \o at \o <<"-">> \o m :
        ts \in Timestamps, lv \in LevelWords, at \in Locations, m \in Messages}

\* timestamp - LEVEL - message
DashLines == {<<ts, "-", lv, "-">> \o m : ts \in Timestamps, lv \in LevelWords, m \in Messages}

\* timestamp LEVEL logger message
PlainLines == {<<ts, lv, "main">> \o m : ts \in Timestamps, lv \in LevelWords, m \in Messages}

\* Lines without a timestamp.
FreeLines ==
    {<<>>,
     <<"#", "comment">>,
     <<"#", "ERROR", "comment">>,
     <<"hello", "world">>,
     <<"disk", "ERROR", "full">>,
     <<"disk", "error">>,
     <<"ERROR", ":", "disk", "full">>,
     <<"SUCCESS", ":", "hello">>,
     <<"WebSocket", "ERROR">>,
     <<"yonghu", ":", "ERROR">>}

Lines ==
    {ind \o body \o tl :
        ind \in Indents, tl \in Indents,
        body \in BarLines \cup DashLines \cup PlainLines \cup FreeLines}

\* str.strip().
RECURSIVE Strip(_)
Strip(l) ==
    IF l = <<>> THEN l
    ELSE IF Head(l) = "INDENT" THEN Strip(Tail(l))
    ELSE IF l[Len(l)] = "INDENT" THEN Strip(SubSeq(l, 1, Len(l) - 1))
    ELSE l

\* The tokens of l from position i on.
From(l, i) == SubSeq(l, i, Len(l))

\* log_patterns['loguru'], matched at the start of the line.
Loguru(l) ==
    /\ Len(l) >= 10
    /\ l[1] = "TS.ms" /\ l[2] = "|" /\ l[3] \in Words /\ l[4] = "|"
    /\ l[5] \in Words /\ l[6] = ":" /\ l[7] \in Words /\ l[8] = ":"
    /\ l[9] \in Numbers /\ l[10] = "-"

\* log_patterns['standard'], for a line that has a word after its level.
Standard(l) ==
    /\ Len(l) >= 3
    /\ l[1] = "TS,ms" /\ l[2] \in Words /\ l[3] \in Words

\* log_patterns['simple'].
Simple(l) ==
    /\ Len(l) >= 2
    /\ l[1] \in log_levels /\ l[2] = ":"

\* _normalize_timestamp: the instant a timestamp string denotes; the current time
\* for the empty string.
NormalizeTimestamp(ts) ==
    CASE ts \in {"TS.ms", "TS,ms"} -> "T.ms"
      [] ts = "TS" -> "T"
      [] OTHER -> "now"

\* LogMonitor._parse_log_line.
LM_ParseLogLine(line) ==
    LET l == Strip(line) IN
    IF Loguru(l)
    THEN [timestamp |-> NormalizeTimestamp(l[1]), level |-> l[3], logger_name |-> l[5],
          message |-> From(l, 11), module |-> l[5], function |-> l[7], line |-> l[9],
          raw_line |-> line, pattern_type |-> "loguru"]
    ELSE IF Standard(l)
    THEN [timestamp |-> NormalizeTimestamp(l[1]), level |-> l[2], logger_name |-> l[3],
          message |-> From(l, 4), module |-> "", function |-> "", line |-> "None",
          raw_line |-> line, pattern_type |-> "standard"]
    ELSE IF Simple(l)
    THEN [timestamp |-> NormalizeTimestamp(""), level |-> l[1], logger_name |-> "main",
          message |-> From(l, 3), module |-> "", function |-> "", line |-> "None",
          raw_line |-> line, pattern_type |-> "simple"]
    ELSE [timestamp |-> "now", level |-> "INFO", logger_name |-> "unknown",
          message |-> l, module |-> "", function |-> "", line |-> "None",
          raw_line |-> line, pattern_type |-> "unknown"]

\* LogMonitor._parse_log_content for a content of one line: the entries handed to
\* _process_log_entry.
LM_ParseLogContent(line) ==
    IF Strip(line) = <<>> THEN <<>> ELSE <<LM_ParseLogLine(Strip(line))>>

\* The position of the first ":" of l at or after position i; 0 when there is none.
FirstColon(l, i) ==
    IF \E j \in i..Len(l) : l[j] = ":"
    THEN CHOOSE j \in i..Len(l) : l[j] = ":" /\ \A h \in i..(j - 1) : l[h] # ":"
    ELSE 0

\* The tail `([^:]+):(\d+) - (.+)` of the first two patterns of parse_log_line,
\* matched from position i.
LocationAt(l, i) ==
    LET j == FirstColon(l, i) IN
    /\ j > i
    /\ Len(l) >= j + 3
    /\ l[j + 1] \in Numbers /\ l[j + 2] = "-"

\* parse_log_line, first pattern (file format), found at position i.
FileFormatAt(l, i) ==
    /\ i + 4 <= Len(l)
    /\ l[i] = "TS.ms" /\ l[i + 1] = "|" /\ l[i + 2] \in Words /\ l[i + 3] = "|"
    /\ LocationAt(l, i + 4)

\* parse_log_line, second pattern (coloured format): the timestamp at i, the bar
\* before the level at a, the bar before the location at b.
ColouredAt(l, i, a, b) ==
    /\ i < a /\ a + 2 <= b /\ b < Len(l)
    /\ l[i] = "TS.ms" /\ l[a] = "|" /\ l[a + 1] \in Words /\ l[b] = "|"
    /\ LocationAt(l, b + 1)

\* parse_log_line, third pattern (simplified format), found at position i.
SimplifiedAt(l, i) ==
    /\ i + 4 <= Len(l)
    /\ l[i] = "TS" /\ l[i + 1] = "-" /\ l[i + 2] \in Words /\ l[i + 3] = "-"

\* The triple re.search finds first: lazy quantifiers try the smaller position first.
Earlier(p, q) ==
    \/ p[1] < q[1]
    \/ p[1] = q[1] /\ p[2] < q[2]
    \/ p[1] = q[1] /\ p[2] = q[2] /\ p[3] <= q[3]

\* p is the beginning of message: str.startswith.
StartsWith(message, p) ==
    Len(message) >= Len(p) /\ SubSeq(message, 1, Len(p)) = p

\* keyword occurs in message.
Contains(message, keyword) == \E i \in DOMAIN message : message[i] = keyword

\* LogService._categorize_message. The keywords that are not ASCII are written in
\* pinyin, the two emoji as "red" and "green".
LS_CategorizeMessage(message) ==
    IF \E k \in {"xintiao", "lianjie", "Token", "WebSocket", "zhucewancheng"} :
           Contains(message, k)
    THEN "heartbeat"
    ELSE IF StartsWith(message, <<"yonghu", ":">>) \/ Contains(message, "yonghuming")
    THEN "user_message"
    ELSE IF StartsWith(message, <<"jiqirenhuifu", ":">>) \/ Contains(message, "AIhuifu")
    THEN "bot_reply"
    ELSE IF \E k \in {"jieguan", "rengong", "shoudong", "red", "green"} :
           Contains(message, k)
    THEN "manual_mode"
    ELSE IF \E k \in {"cuowu", "shibai", "yichang", "error", "Error", "Exception"} :
           Contains(message, k)
    THEN "error"
    ELSE "system"

\* The record parse_log_line builds from the groups of a match.
LS_Record(line, level, module, line_num, message) ==
    [timestamp |-> "T", level |-> Upper(level), module |-> module, line_num |-> line_num,
     message |-> message, raw_line |-> line, category |-> LS_CategorizeMessage(message)]

\* No record: parse_log_line returns None.
NoRecord == [timestamp |-> "none", level |-> "none", module |-> <<>>, line_num |-> "none",
             message |-> <<>>, raw_line |-> <<>>, category |-> "none"]

\* A best-effort record that takes its level from the keyword found in the line.
LS_BestEffort_KeywordLevel(line) ==
    [timestamp |-> "now",
     level |-> Upper(line[CHOOSE i \in DOMAIN line : Upper(line[i]) \in log_levels]),
     module |-> <<"unknown">>, line_num |-> "0", message |-> line, raw_line |-> line,
     category |-> "system"]

\* parse_log_line, lines 233-241: the record for a line no pattern matches.
LS_BestEffort(line) ==
    [timestamp |-> "now", level |-> "INFO", module |-> <<"unknown">>,
     line_num |-> "0", message |-> line, raw_line |-> line, category |-> "system"]

\* Line 232: a level keyword occurs in line.upper().
HasLevelKeyword(line) == \E i \in DOMAIN line : Upper(line[i]) \in log_levels

\* LogService.parse_log_line.
LS_ParseLogLine(raw) ==
    LET line == Strip(raw)
        P == DOMAIN line
        first == {i \in P : FileFormatAt(line, i)}
        second == {p \in P \X P \X P : ColouredAt(line, p[1], p[2], p[3])}
        third == {i \in P : SimplifiedAt(line, i)}
    IN  IF line = <<>> \/ line[1] = "#" THEN NoRecord
        ELSE IF first # {}
        THEN LET i == CHOOSE x \in first : \A y \in first : x <= y
                 j == FirstColon(line, i + 4)
             IN  LS_Record(line, line[i + 2], SubSeq(line, i + 4, j - 1), line[j + 1],
                           From(line, j + 3))
        ELSE IF second # {}
        THEN LET p == CHOOSE x \in second : \A y \in second : Earlier(x, y)
                 j == FirstColon(line, p[3] + 1)
             IN  LS_Record(line, line[p[2] + 1], SubSeq(line, p[3] + 1, j - 1), line[j + 1],
                           From(line, j + 3))
        ELSE IF third # {}
        THEN LET i == CHOOSE x \in third : \A y \in third : x <= y
             IN  LS_Record(line, line[i + 2], <<"main">>, "0", From(line, i + 4))
        ELSE IF HasLevelKeyword(line)
        THEN LS_BestEffort(line)
        ELSE NoRecord

\* read_new_logs for one line: the records handed to _emit_log_to_frontend.
LS_ReadLine(raw) ==
    IF LS_ParseLogLine(raw) = NoRecord THEN <<>> ELSE <<LS_ParseLogLine(raw)>>

\* The line reaches the tail loop of log_monitor as a chunk of its own:
\* _parse_log_content, whose entries go to _process_log_entry (the history buffer
\* and the viewers).
P_LogMonitor ==
    /\ p_impl = "none"
    /\ p_impl' = "log_monitor"
    /\ p_out' = LM_ParseLogContent(p_line)
    /\ UNCHANGED <<p_line, nonParseVars>>

\* The line reaches read_new_logs of log_service: parse_log_line, whose record
\* goes to _emit_log_to_frontend (the queue and the viewers).
P_LogService ==
    /\ p_impl = "none"
    /\ p_impl' = "log_service"
    /\ p_out' = LS_ReadLine(p_line)
    /\ UNCHANGED <<p_line, nonParseVars>>

InitParse ==
    /\ SupIdle /\ HubInit /\ QueueInit /\ TailIdle /\ MonInit /\ ReaderInit /\ FrontIdle /\ StatIdle
    /\ \E l \in Lines : ParseInitWith(l)

NextParse ==
    \/ P_LogMonitor
    \/ P_LogService

SpecParse == InitParse /\ [][NextParse]_vars

----------------------------------------------------------------------------
\* Properties of the parsers (SpecParse).

\* The line that was parsed, without the blanks at its ends.
Parsed == Strip(p_line)

\* The lines of the form of "2024-01-20 10:30:00.123 | INFO | main:handle:42 - hello".
ExampleLines ==
    {<<"TS.ms", "|", lv, "|", "main", ":", "handle", ":", "42", "-">> \o m :
        lv \in LevelWords \cap log_levels, m \in Messages \ {<<>>}}

\* C28: parsing a line of the form timestamp | LEVEL | module:function:line -
\* message yields one record with the timestamp, the level, the module, the
\* function, the line number and the message of the line, not a best-effort record.
C28_LoguruLineFullyParsed ==
    (p_impl # "none" /\ Parsed \in ExampleLines) =>
        /\ Len(p_out) = 1
        /\ p_out[1].timestamp \in {"T.ms", "T"}
        /\ p_out[1].level = Parsed[3]
        /\ p_out[1].message = From(Parsed, 11)
        /\ IF p_impl = "log_monitor"
           THEN /\ p_out[1].module = "main"
                /\ p_out[1].function = "handle"
                /\ p_out[1].line = "42"
           ELSE /\ p_out[1].module = <<"main">>
                /\ p_out[1].line_num = "42"

\* The line matches none of the formats of the parser it was given to.
MatchesNoFormat ==
    IF p_impl = "log_monitor"
    THEN ~Loguru(Parsed) /\ ~Standard(Parsed) /\ ~Simple(Parsed)
    ELSE /\ \A i \in DOMAIN Parsed : ~FileFormatAt(Parsed, i) /\ ~SimplifiedAt(Parsed, i)
         /\ \A i, a, b \in DOMAIN Parsed : ~ColouredAt(Parsed, i, a, b)

\* The line is blank or its first non-blank character is the comment marker.
BlankOrComment == Parsed = <<>> \/ Parsed[1] = "#"

C30_BlankAndCommentYieldNothing ==
    (p_impl # "none" /\ BlankOrComment) => p_out = <<>>

\* C31: every record of log_service has the category of the first keyword test,
\* in the order heartbeat, user_message, bot_reply, manual_mode, error, system,
\* that its message matches, whether a pattern matched the line or not.
C31_CategoryIsFirstMatch ==
    (p_impl = "log_service" /\ p_out # <<>>) =>
        p_out[1].category = LS_CategorizeMessage(p_out[1].message)

\* C32: every record a parser produces has one of the levels DEBUG, INFO,
\* WARNING, ERROR, CRITICAL; no other word of the line is passed on as the level.
C32_LevelIsOneOfFive ==
    (p_impl # "none" /\ p_out # <<>>) => p_out[1].level \in log_levels

----------------------------------------------------------------------------
\* web_app.py: the thread that reads the worker's stdout (_monitor_process_output)
\* and the calls that start and stop the worker around it. start_main_process,
\* stop_main_process and get_status run under self.lock, one at a time; the
\* reader thread takes no lock and interleaves with their steps.

\* Thread.is_alive(): started and its run not yet over.
IsAlive(i) == rd_thread[i] \in {"started", "reading", "finally"}

FreshWorker == CHOOSE p \in Pids : rd_worker[p] = "unborn" /\ \A q \in Pids : q < p => rd_worker[q] # "unborn"

FreshThread == CHOOSE i \in Threads : rd_thread[i] = "unborn" /\ \A j \in Threads : j < i => rd_thread[j] # "unborn"

\* start_main_process, lines 47-69: not running, so Popen; self.process is the new
\* worker and self.status "running".
RD_StartSpawn ==
    /\ rd_pc = "idle" /\ rd_status # "running"
    /\ \E p \in Pids : rd_worker[p] = "unborn"
    /\ rd_process' = FreshWorker
    /\ rd_worker' = [rd_worker EXCEPT ![FreshWorker] = "alive"]
    /\ rd_status' = "running"
    /\ rd_pc' = "start_mon"
    /\ UNCHANGED <<rd_stdout, rd_pipe, rd_printed, rd_enqueued, output_thread, rd_thread,
                   rd_reads, nonReaderVars>>

\* _start_output_monitoring, lines 173-180: nothing when self.output_thread is
\* alive, a new thread otherwise.
StartOutputMonitoring ==
    IF output_thread # None /\ IsAlive(output_thread)
    THEN UNCHANGED <<output_thread, rd_thread>>
    ELSE /\ \E i \in Threads : rd_thread[i] = "unborn"
         /\ output_thread' = FreshThread
         /\ rd_thread' = [rd_thread EXCEPT ![FreshThread] = "started"]

\* start_main_process, lines 71-75: _start_output_monitoring, return success.
RD_StartMonitoring ==
    /\ rd_pc = "start_mon"
    /\ StartOutputMonitoring
    /\ rd_pc' = "idle"
    /\ UNCHANGED <<rd_status, rd_process, rd_worker, rd_stdout, rd_pipe, rd_printed,
                   rd_enqueued, rd_reads, nonReaderVars>>

\* stop_main_process, lines 93-107: "stopping", terminate, wait (kill, wait): the
\* worker has exited.
RD_StopTerm ==
    /\ rd_pc = "idle" /\ rd_status = "running"
    /\ rd_status' = "stopping"
    /\ rd_worker' = IF rd_process # None
                    THEN [rd_worker EXCEPT ![rd_process] = "exited"]
                    ELSE rd_worker
    /\ rd_pc' = "stop_fin"
    /\ UNCHANGED <<rd_process, rd_stdout, rd_pipe, rd_printed, rd_enqueued, output_thread,
                   rd_thread, rd_reads, nonReaderVars>>

\* stop_main_process, lines 109-117: self.process = None, "stopped";
\* _stop_output_monitoring does nothing (lines 182-185).
RD_StopFinish ==
    /\ rd_pc = "stop_fin"
    /\ rd_process' = None
    /\ rd_status' = "stopped"
    /\ rd_pc' = "idle"
    /\ UNCHANGED <<rd_worker, rd_stdout, rd_pipe, rd_printed, rd_enqueued, output_thread,
                   rd_thread, rd_reads, nonReaderVars>>

\* get_status, lines 135-145: poll() finds the worker exited: "stopped", no process.
RD_Status ==
    /\ rd_pc = "idle" /\ rd_status = "running" /\ rd_process # None
    /\ rd_worker[rd_process] = "exited"
    /\ rd_status' = "stopped"
    /\ rd_process' = None
    /\ UNCHANGED <<rd_pc, rd_worker, rd_stdout, rd_pipe, rd_printed, rd_enqueued,
                   output_thread, rd_thread, rd_reads, nonReaderVars>>

\* The worker exits on its own.
RD_WorkerExit(p) ==
    /\ rd_worker[p] = "alive"
    /\ rd_worker' = [rd_worker EXCEPT ![p] = "exited"]
    /\ UNCHANGED <<rd_status, rd_process, rd_pc, rd_stdout, rd_pipe, rd_printed,
                   rd_enqueued, output_thread, rd_thread, rd_reads, nonReaderVars>>

\* The worker prints a line to its stdout (the pipe of lines 57-60).
RD_Print(p) ==
    /\ rd_worker[p] = "alive" /\ rd_printed < MaxOut
    /\ rd_pipe' = [rd_pipe EXCEPT ![p] = @ + 1]
    /\ rd_printed' = rd_printed + 1
    /\ UNCHANGED <<rd_status, rd_process, rd_pc, rd_worker, rd_stdout, rd_enqueued,
                   output_thread, rd_thread, rd_reads, nonReaderVars>>

\* _monitor_process_output, lines 190-194: return when there is no process, else
\* iter(self.process.stdout.readline, '') binds the readline of the process that
\* self.process is now.
MO_Begin(i) ==
    /\ rd_thread[i] = "started"
    /\ IF rd_process = None
       THEN /\ rd_thread' = [rd_thread EXCEPT ![i] = "finally"]
            /\ UNCHANGED rd_reads
       ELSE /\ rd_thread' = [rd_thread EXCEPT ![i] = "reading"]
            /\ rd_reads' = [rd_reads EXCEPT ![i] = rd_process]
    /\ UNCHANGED <<rd_status, rd_process, rd_pc, rd_worker, rd_stdout, rd_pipe, rd_printed,
                   rd_enqueued, output_thread, nonReaderVars>>

\* lines 194-201, one readline: a line goes to log_queue; the end of the stream
\* ('' once the worker has exited and the pipe is empty) ends the loop; readline
\* of a closed file raises (line 203). Otherwise the thread waits.
MO_ReadLine(i) ==
    /\ rd_thread[i] = "reading"
    /\ LET w == rd_reads[i] IN
       IF rd_stdout[w] = "closed"
       THEN /\ rd_thread' = [rd_thread EXCEPT ![i] = "finally"]
            /\ UNCHANGED <<rd_pipe, rd_enqueued>>
       ELSE IF rd_pipe[w] > 0
       THEN /\ rd_pipe' = [rd_pipe EXCEPT ![w] = @ - 1]
            /\ rd_enqueued' = rd_enqueued + 1
            /\ UNCHANGED rd_thread
       ELSE /\ rd_worker[w] = "exited"
            /\ rd_thread' = [rd_thread EXCEPT ![i] = "finally"]
            /\ UNCHANGED <<rd_pipe, rd_enqueued>>
    /\ UNCHANGED <<rd_status, rd_process, rd_pc, rd_worker, rd_stdout, rd_printed,
                   output_thread, rd_reads, nonReaderVars>>

\* lines 205-211, the finally clause: close the stdout of the process that
\* self.process is now; the thread is over.
MO_Finally(i) ==
    /\ rd_thread[i] = "finally"
    /\ rd_stdout' = IF rd_process # None
                    THEN [rd_stdout EXCEPT ![rd_process] = "closed"]
                    ELSE rd_stdout
    /\ rd_thread' = [rd_thread EXCEPT ![i] = "dead"]
    /\ UNCHANGED <<rd_status, rd_process, rd_pc, rd_worker, rd_pipe, rd_printed,
                   rd_enqueued, output_thread, rd_reads, nonReaderVars>>

InitReader == SupIdle /\ HubInit /\ QueueInit /\ TailIdle /\ MonInit /\ ParseIdle /\ ReaderInit /\ FrontIdle /\ StatIdle

NextReader ==
    \/ RD_StartSpawn
    \/ RD_StartMonitoring
    \/ RD_StopTerm
    \/ RD_StopFinish
    \/ RD_Status
    \/ \E p \in Pids : RD_WorkerExit(p)
    \/ \E p \in Pids : RD_Print(p)
    \/ \E i \in Threads : MO_Begin(i)
    \/ \E i \in Threads : MO_ReadLine(i)
    \/ \E i \in Threads : MO_Finally(i)

SpecReader == InitReader /\ [][NextReader]_vars

\* A live thread reads, or is about to read, the stdout of worker w.
HasReader(w) ==
    \E i \in Threads :
        \/ rd_thread[i] = "reading" /\ rd_reads[i] = w
        \/ rd_thread[i] = "started" /\ rd_process = w

\* C34: after every successful start, also one that follows a stop, the current
\* worker's stdout has a live reader thread and stays open until that worker
\* exits; no reader thread closes the stdout of a worker that still runs.
C34_CurrentWorkerHasReader ==
    /\ (rd_pc = "idle" /\ rd_status = "running" /\ rd_process # None
          /\ rd_worker[rd_process] = "alive") =>
            HasReader(rd_process) /\ rd_stdout[rd_process] = "open"
    /\ \A p \in Pids : rd_stdout[p] = "closed" => rd_worker[p] = "exited"

\* C35: every record the tailer emits is one complete line of the log file: a
\* line written in two parts with a poll in between is emitted as one record for
\* the whole line, never as fragment records.
C35_RecordsAreWholeLines ==
    \A k \in DOMAIN emitted : \E l \in 1..MaxLines : emitted[k] = Rec(l)

\* C36: every line appended to the log file after initialize() loaded the recent
\* history gets into the history buffer, also a line appended before the tail
\* loop was started. Stated for a file that was never cut and has no more lines
\* than initialize() loads: once the tail loop has caught up, every line of the
\* file has been put into the buffer.
C36_AppendedLinesReachBuffer ==
    (CaughtUp /\ file_exists /\ file = FileOf(next_line - 1) /\ next_line - 1 <= tail_lines)
        => \A l \in LinesIn(file) : Rec(l) \in Range(pushed)

----------------------------------------------------------------------------
\* web_frontend: LogService over the log file and the viewers of the namespace
\* /logs. Every line of the file is a valid log line; a record is the number of
\* its line, 0 for the record of _send_config_suggestion.

\* The lines a..b of the file, in order.
LinesFrom(a, b) == [i \in 1..(IF b >= a THEN b - a + 1 ELSE 0) |-> a + i - 1]

\* _read_existing_logs, line 429: valid_lines[-lines_count:] when there are more
\* than lines_count lines, all lines otherwise.
RecentLines(valid_lines, lines_count) ==
    IF Len(valid_lines) > lines_count
    THEN IF lines_count = 0 THEN valid_lines ELSE LastN(valid_lines, lines_count)
    ELSE valid_lines

\* _emit_log_to_frontend for each record of recs: socketio.emit('new_log', ...,
\* namespace='/logs') sends the record to every client of the namespace.
EmitToFrontend(recs) ==
    /\ fs_recv' = [v \in Viewers |->
                      IF v \in connected_clients THEN fs_recv[v] \o recs ELSE fs_recv[v]]
    /\ fs_sent' = fs_sent \cup (Range(recs) \ {0})

\* _read_existing_logs(lines_count): the suggestion record for an empty file;
\* otherwise the position goes to the end of the file and the most recent lines
\* are emitted.
ReadExistingLogs(lines_count) ==
    IF fs_lines = 0
    THEN /\ EmitToFrontend(<<0>>)
         /\ UNCHANGED fs_last_position
    ELSE /\ fs_last_position' = fs_lines
         /\ EmitToFrontend(RecentLines(LinesFrom(1, fs_lines), lines_count))

\* LogService.start_monitoring: _read_existing_logs() with its default of 100
\* lines (more than the file holds), then the observer is started.
FS_StartMonitoring ==
    /\ ~fs_monitoring
    /\ ReadExistingLogs(MaxLines + MaxHist)
    /\ fs_monitoring' = TRUE
    /\ fs_live_from' = fs_lines
    /\ UNCHANGED <<fs_lines, connected_clients, fs_requests, nonFrontVars>>

\* The worker appends a line to the log file.
FS_Append ==
    /\ fs_lines < MaxLines
    /\ fs_lines' = fs_lines + 1
    /\ UNCHANGED <<fs_last_position, fs_monitoring, connected_clients, fs_recv, fs_sent,
                   fs_live_from, fs_requests, nonFrontVars>>

\* LogFileHandler.on_modified: read_new_logs reads the lines after last_position,
\* moves the position to the end and emits them.
FS_OnModified ==
    /\ fs_monitoring /\ fs_last_position < fs_lines
    /\ fs_last_position' = fs_lines
    /\ EmitToFrontend(LinesFrom(fs_last_position + 1, fs_lines))
    /\ UNCHANGED <<fs_lines, fs_monitoring, connected_clients, fs_live_from, fs_requests,
                   nonFrontVars>>

\* handle_connect.
FS_Connect(v) ==
    /\ v \notin connected_clients
    /\ connected_clients' = connected_clients \cup {v}
    /\ UNCHANGED <<fs_lines, fs_last_position, fs_monitoring, fs_recv, fs_sent,
                   fs_live_from, fs_requests, nonFrontVars>>

\* handle_disconnect.
FS_Disconnect(v) ==
    /\ v \in connected_clients
    /\ connected_clients' = connected_clients \ {v}
    /\ UNCHANGED <<fs_lines, fs_last_position, fs_monitoring, fs_recv, fs_sent,
                   fs_live_from, fs_requests, nonFrontVars>>

\* handle_request_log_history for the event of viewer v with lines_count.
FS_RequestLogHistory(v, lines_count) ==
    /\ v \in connected_clients /\ fs_requests < MaxHist
    /\ ReadExistingLogs(lines_count)
    /\ fs_requests' = fs_requests + 1
    /\ UNCHANGED <<fs_lines, fs_monitoring, connected_clients, fs_live_from, nonFrontVars>>

InitFront ==
    /\ SupIdle /\ HubInit /\ QueueInit /\ TailIdle /\ MonInit /\ ParseIdle /\ ReaderInit
    /\ StatIdle
    /\ \E n \in 0..1 : FrontInitWith(n)

NextFront ==
    \/ FS_StartMonitoring
    \/ FS_Append
    \/ FS_OnModified
    \/ \E v \in Viewers : FS_Connect(v)
    \/ \E v \in Viewers : FS_Disconnect(v)
    \/ \E v \in Viewers, lines_count \in 0..MaxLines : FS_RequestLogHistory(v, lines_count)

SpecFront == InitFront /\ [][NextFront]_vars

\* C37: every line appended after monitoring started is emitted as a live record
\* at least once, however history requests interleave with the file-change
\* events: when the position has reached the end of the file, every line
\* appended since monitoring started has been emitted.
C37_HistoryRequestSkipsNoLine ==
    (fs_monitoring /\ fs_last_position = fs_lines) =>
        \A l \in (fs_live_from + 1)..fs_lines : l \in fs_sent

\* C38: the replay of a viewer's request_log_history goes to that viewer only: no
\* other viewer receives a record because of it.
C38_ReplayOnlyToRequester ==
    [][\A v \in Viewers :
          (\E lines_count \in 0..MaxLines : FS_RequestLogHistory(v, lines_count)) =>
              \A u \in Viewers \ {v} : fs_recv'[u] = fs_recv[u]]_vars

----------------------------------------------------------------------------
\* LogMonitor.get_log_statistics (log_monitor.py lines 428-461). A record of the
\* buffer is its timestamp (the records arrive in the order 1, 2, ...), its level
\* and the length of its message.

StatLevels == {"INFO", "ERROR", "CRITICAL"}
MessageLengths == {1, message_cut + 1}

\* The buffers of n records.
BuffersOf(n) ==
    {[i \in 1..n |-> [timestamp |-> i, level |-> levels[i], message |-> lengths[i]]] :
        levels \in [1..n -> StatLevels], lengths \in [1..n -> MessageLengths]}

\* Line 451: level in ['ERROR', 'CRITICAL'].
IsError(log_entry) == log_entry.level \in {"ERROR", "CRITICAL"}

\* Lines 446-455, the collecting half of the loop over the buffer: an error record
\* is appended while recent_errors holds fewer than ten; message[:100] cuts the
\* message.
RECURSIVE CollectErrors(_, _)
CollectErrors(buffer, recent_errors) ==
    IF buffer = <<>> THEN recent_errors
    ELSE LET log_entry == Head(buffer)
             kept == IF IsError(log_entry) /\ Len(recent_errors) < recent_errors_max
                     THEN Append(recent_errors,
                                 [timestamp |-> log_entry.timestamp,
                                  message |-> IF log_entry.message > message_cut
                                              THEN message_cut ELSE log_entry.message])
                     ELSE recent_errors
         IN  CollectErrors(Tail(buffer), kept)

\* Lines 446-448, the counting half of the loop: level_counts, a dict whose keys
\* are the levels met.
LevelCounts(buffer) ==
    [l \in {buffer[i].level : i \in DOMAIN buffer} |->
        Cardinality({i \in DOMAIN buffer : buffer[i].level = l})]

\* Line 460: recent_errors[-10:].
LastTen(list) ==
    IF Len(list) > recent_errors_max
    THEN SubSeq(list, Len(list) - recent_errors_max + 1, Len(list))
    ELSE list

\* get_log_statistics: the empty answer for an empty buffer (lines 435-440), else
\* the counts and the collected errors.
GetLogStatistics(buffer) ==
    IF buffer = <<>>
    THEN [taken |-> TRUE, total_count |-> 0, level_counts |-> <<>>, recent_errors |-> <<>>]
    ELSE [taken |-> TRUE, total_count |-> Len(buffer), level_counts |-> LevelCounts(buffer),
          recent_errors |-> LastTen(CollectErrors(buffer, <<>>))]

LM_GetLogStatistics ==
    /\ ~stats.taken
    /\ stats' = GetLogStatistics(stat_buffer)
    /\ UNCHANGED <<stat_buffer, nonStatVars>>

InitStat ==
    /\ SupIdle /\ HubInit /\ QueueInit /\ TailIdle /\ MonInit /\ ParseIdle /\ ReaderInit
    /\ FrontIdle
    /\ \E n \in 0..MaxStat : \E b \in BuffersOf(n) : StatInitWith(b)

NextStat == LM_GetLogStatistics

SpecStat == InitStat /\ [][NextStat]_vars

\* The timestamps of the error records of a buffer, in arrival order.
ErrorTimestamps(buffer) ==
    LET errors == SelectSeq(buffer, IsError)
    IN  [k \in DOMAIN errors |-> errors[k].timestamp]

\* C40: recent_errors holds the most recent ERROR/CRITICAL records of the buffer,
\* at most ten: all of them when the buffer holds ten or fewer, else the last ten
\* in arrival order.
C40_RecentErrorsAreLatest ==
    stats.taken =>
        [k \in DOMAIN stats.recent_errors |-> stats.recent_errors[k].timestamp]
            = LastTen(ErrorTimestamps(stat_buffer))

====
